---- MODULE Spec2Model ----
(***************************************************************************)
(* Model of the spa dataset converters                                     *)
(*   tools/data_converter/spa_nus_converter.py                             *)
(*   tools/data_converter/spa_mvx_converter.py                             *)
(*                                                                         *)
(* Numbers.  Label values (location, dimensions) are whole numbers.  An    *)
(* angle is the pair <<5*cos, 5*sin>>, so that the rotations used are      *)
(* exact (0, 1, 3/5, 4/5).  A corner template entry is kept doubled (l for *)
(* l/2), so a rotated corner is a whole number of tenths; point-cloud      *)
(* coordinates are given in tenths as well.  Arithmetic is the exact       *)
(* arithmetic of the reals: the rounding of float64 is not modelled.       *)
(***************************************************************************)
EXTENDS Integers, Sequences, FiniteSets, TLC

VARIABLES
    gt_box,        \* SpecBox: the box handed to a corner builder
    builder,       \* SpecBox: which builder ran: "none", "batch", "single"
    bounding_box,  \* SpecBox: the local 3x8 outline the builder made
    corner_box,    \* SpecBox: what the builder returned
    train_scenes,  \* the frames listed for training (what is on disk for each)
    val_scenes,    \* the frames listed for validation
    test,          \* the test flag of _fill_trainval_infos
    stage,         \* "start", "filled" (infos returned) or "raised"
    train_nusc_infos,  \* returned by _fill_trainval_infos
    val_nusc_infos,
    cam_arg,       \* the last get_2d_boxes call: [token, cam, mono3d, outcome]
    ann_recs,      \* the ann_rec dictionaries that call built, row by row
    repro_recs,    \* what that call returned (or the exception it raised)
    corner_coords, \* SpecHull: the points handed to post_process_coords
    imsize,        \* SpecHull: its canvas <<width, height>>
    final_coords,  \* SpecHull: [outcome, rect] of that call
    gen_call,      \* SpecRecord: [fn, category, box] of a generate_record call
    coco_rec,      \* SpecRecord: [outcome, rec] of that call
    infos,         \* SpecCalc: the list handed to calculate, assigned at its end
    tasks,         \* SpecCalc: the tasks of the worker pool (the infos as handed in)
    dispatched,    \* SpecCalc: how many tasks the pool has handed to workers
    running,       \* SpecCalc: indices of the tasks a worker is computing
    results,       \* SpecCalc: index -> what calculate_single returned
    ret_infos,     \* SpecCalc: the indices of the results collected so far
    calc_pc,       \* SpecCalc: "idle", "pool", "done"
    mvx_info,      \* SpecMvx: the info dictionary handed to spa_mvx get_2d_boxes
    mvx_call,      \* SpecMvx: [occluded, mono3d, calls] of the last call
    mvx_recs,      \* SpecMvx: the list that call returned
    create_call,   \* SpecCreate: [version, asserts, nusc_ok, splits] of a create_spa_nus_infos run
    create_out,    \* SpecCreate: [outcome, train_scenes, val_scenes, test, written] of that run
    reduce_call,   \* SpecReduce: [infos, save_path, back] of a _create_reduced_point_cloud call
    reduce_out,    \* SpecReduce: [outcome, save_dir_made, written] of that call
    pts_call,      \* SpecPts: [pc, corners] handed to the point-in-box functions
    pts_out,       \* SpecPts: [loop, vec, index], [called, ret] of each of the three
    export_call,   \* SpecExport: [fn, frames, mono3d] of an export_2d_annotation run
    export_out     \* SpecExport: [outcome, annotations, images, coco_ann_id] of that run

boxvars == <<gt_box, builder, bounding_box, corner_box>>

nusvars == <<train_scenes, val_scenes, test, stage, train_nusc_infos,
             val_nusc_infos, cam_arg, ann_recs, repro_recs>>

hullvars == <<corner_coords, imsize, final_coords>>

recvars == <<gen_call, coco_rec>>

calcvars == <<infos, tasks, dispatched, running, results, ret_infos, calc_pc>>

mvxvars == <<mvx_info, mvx_call, mvx_recs>>

createvars == <<create_call, create_out>>

reducevars == <<reduce_call, reduce_out>>

ptsvars == <<pts_call, pts_out>>

exportvars == <<export_call, export_out>>

vars == <<boxvars, nusvars, hullvars, recvars, calcvars, mvxvars, createvars, reducevars, ptsvars, exportvars>>

(***************************************************************************)
(* numpy helpers                                                           *)
(***************************************************************************)
Range(s) == {s[i] : i \in 1..Len(s)}

\* ndarray.max() / ndarray.min() of a non-empty 1-d array
SeqMax(s) == CHOOSE x \in Range(s) : \A y \in Range(s) : y <= x

SeqMin(s) == CHOOSE x \in Range(s) : \A y \in Range(s) : x <= y

Abs(x) == IF x < 0 THEN -x ELSE x

\* m[:, k] of a 2-d array kept as a sequence of rows (k counted from 1)
\* np.array(...): the array with every entry computed
np_array(f) == f @@ <<>>

Col(m, k) == np_array([i \in 1..Len(m) |-> m[i][k]])

\* m.T
Transpose(m) == np_array([j \in 1..Len(m[1]) |-> np_array([i \in 1..Len(m) |-> m[i][j]])])

\* np.dot(a, b) of a 3x3 matrix and a 3xN matrix
Dot(a, b) ==
    np_array([i \in 1..3 |-> np_array([j \in 1..Len(b[1]) |->
        a[i][1] * b[1][j] + a[i][2] * b[2][j] + a[i][3] * b[3][j]])])

\* the angle left as the label gives it
KeepAngle(a) == a

\* angle + np.pi / 2 on <<5*cos, 5*sin>>
AddHalfPi(a) == <<-a[2], a[1]>>

\* a is a multiple of pi/2
Cardinal(a) == a[1] = 0 \/ a[2] = 0

\* the z-rotation matrix of both builders, times 5
rotation_matrix(a) == << <<a[1], -a[2], 0>>, <<a[2], a[1], 0>>, <<0, 0, 5>> >>

(***************************************************************************)
(* box_center_to_corner_3d: the batch builder                              *)
(***************************************************************************)
\* signs of x_corners, y_corners, z_corners (lines 176, 178, 180)
x_corners_signs == <<1, 1, -1, -1, 1, 1, -1, -1>>

y_corners_signs == <<1, 1, -1, -1, 1, 1, -1, -1>>

z_corners_signs == <<1, 1, -1, -1, 1, 1, -1, -1>>

\* bounding_box[i] for one box of the batch: 3x8, doubled
batch_bounding_box(dim) ==
    << np_array([i \in 1..8 |-> x_corners_signs[i] * dim[1]]),
       np_array([i \in 1..8 |-> y_corners_signs[i] * dim[2]]),
       np_array([i \in 1..8 |-> z_corners_signs[i] * dim[3]]) >>

\* corner_box[i] = np.dot(rotation_matrix[i], bounding_box[i]).T + translation[i]
\* an 8x3 array, in tenths
batch_corner(center, dim, angle) ==
    LET rotation == AddHalfPi(angle)
        rotated == Transpose(Dot(rotation_matrix(rotation), batch_bounding_box(dim)))
    IN  np_array([i \in 1..8 |-> np_array([k \in 1..3 |-> rotated[i][k] + 10 * center[k]])])

\* the whole batch: one 8x3 array per box, in the order of the boxes
box_center_to_corner_3d(centers, dims, angles) ==
    [n \in 1..Len(centers) |-> batch_corner(centers[n], dims[n], angles[n])]

(***************************************************************************)
(* box_center_to_corner_3d_: the single-box builder                        *)
(***************************************************************************)
\* signs of x_corners, y_corners, z_corners (lines 636-638)
x_corners_signs_ == <<1, 1, -1, -1, 1, 1, -1, -1>>

y_corners_signs_ == <<1, -1, -1, 1, 1, -1, -1, 1>>

\* the outline measured from the top face instead of the centre, the
\* alternative the source keeps in a comment on line 638
z_corners_from_top_ == <<0, 0, 0, 0, -2, -2, -2, -2>>

z_corners_signs_ == <<-1, -1, -1, -1, 1, 1, 1, 1>>

single_bounding_box(box_center) ==
    << np_array([i \in 1..8 |-> x_corners_signs_[i] * box_center[4]]),
       np_array([i \in 1..8 |-> y_corners_signs_[i] * box_center[5]]),
       np_array([i \in 1..8 |-> z_corners_signs_[i] * box_center[6]]) >>

\* box_center = <<x, y, z, l, w, h, rotation>>; the result is the 3x8 array
\* (np.dot(rotation_matrix, bounding_box).T + translation).T, in tenths
box_center_to_corner_3d_(box_center) ==
    LET rotated == Dot(rotation_matrix(box_center[7]), single_bounding_box(box_center))
    IN  np_array([k \in 1..3 |-> np_array([i \in 1..8 |-> rotated[k][i] + 10 * box_center[k]])])

(***************************************************************************)
(* get_label_anno: one label file, a sequence of rows                      *)
(*   [name, track_id, hwl, location, rotation_y, nf]                       *)
(* nf is the number of whitespace-separated fields of the row.  The fields *)
(* the converters only pass through (truncated, occluded, alpha, bbox,     *)
(* score) are left out.                                                    *)
(***************************************************************************)
nus_categories == <<"car", "bicycle", "motorcycle", "pedestrian">>

nus_attributes ==
    <<"cycle.with_rider", "cycle.without_rider", "pedestrian.moving",
      "pedestrian.standing", "pedestrian.sitting_lying_down", "vehicle.moving",
      "vehicle.parked", "vehicle.stopped", "None", "vehicle.bicycle">>

name_map ==
    [car |-> "car", motocycle |-> "motorcycle", pedestrian |-> "pedestrian",
     cyclist |-> "bicycle"]

\* tuple.index(x), counted from 0
IndexOf(t, x) == (CHOOSE i \in 1..Len(t) : t[i] = x /\ \A j \in 1..(i - 1) : t[j] # x) - 1

\* the cases in which get_label_anno raises: a name that name_map lacks
\* (KeyError, line 139), a row without field 15 (IndexError, line 157), a row
\* without field 16 when the first row has 17 fields (IndexError, line 160)
LabelRaises(content) ==
    \/ \E i \in 1..Len(content) : content[i].name \notin DOMAIN name_map
    \/ \E i \in 1..Len(content) : content[i].nf < 16
    \/ /\ Len(content) # 0
       /\ content[1].nf = 17
       /\ \E i \in 1..Len(content) : content[i].nf < 17

\* the annotations of a file that parses, row by row: every array of the
\* returned dictionary has one entry per row, so the dictionary of arrays
\* is kept as an array of rows
get_label_anno(content) ==
    LET num_objects == Cardinality({i \in 1..Len(content) : content[i].name # "DontCare"})
    IN  [i \in 1..Len(content) |->
            [name |-> name_map[content[i].name],
             track_id |-> content[i].track_id,
             dimensions |-> <<content[i].hwl[3], content[i].hwl[2], content[i].hwl[1]>>,
             location |-> content[i].location,
             rotation_y |-> content[i].rotation_y,
             index |-> IF i <= num_objects THEN i - 1 ELSE -1,
             group_ids |-> i - 1]]

(***************************************************************************)
(* get_pts_in_3dbox_: points inside the min/max range of each corner array *)
(***************************************************************************)
\* the comparison with the bounds left out
InRangeStrict(v, lo, hi) == v > lo /\ v < hi

\* pc[:, k] >= lo and pc[:, k] <= hi (np.logical_and, lines 224-226)
InRange(v, lo, hi) == v >= lo /\ v <= hi

\* corner is indexed as corner[:, 0], corner[:, 1], corner[:, 2] whatever its
\* shape: an 8x3 array gives the x, y and z of the 8 corners, a 3x8 array
\* gives the three coordinates of corner 0, of corner 1 and of corner 2
get_pts_in_3dbox_(pc, corners) ==
    [n \in 1..Len(corners) |->
        LET corner == corners[n]
            x_max == SeqMax(Col(corner, 1))
            x_min == SeqMin(Col(corner, 1))
            y_max == SeqMax(Col(corner, 2))
            y_min == SeqMin(Col(corner, 2))
            z_max == SeqMax(Col(corner, 3))
            z_min == SeqMin(Col(corner, 3))
            mask == [j \in 1..Len(pc) |->
                        /\ InRange(pc[j][1], x_min, x_max)
                        /\ InRange(pc[j][2], y_min, y_max)
                        /\ InRange(pc[j][3], z_min, z_max)]
        IN  Cardinality({j \in 1..Len(pc) : mask[j]})]

\* a chained comparison that leaves the upper bound out
BetweenHalfOpen(lo, v, hi) == lo <= v /\ v < hi

\* lo <= v <= hi, the chained comparison of lines 209-211
Between(lo, v, hi) == lo <= v /\ v <= hi

\* get_pts_in_3dbox: the loop over the points with a running count
get_pts_in_3dbox(pc, corners) ==
    [n \in 1..Len(corners) |->
        LET corner == corners[n]
            x_max == SeqMax(Col(corner, 1))
            x_min == SeqMin(Col(corner, 1))
            y_max == SeqMax(Col(corner, 2))
            y_min == SeqMin(Col(corner, 2))
            z_max == SeqMax(Col(corner, 3))
            z_min == SeqMin(Col(corner, 3))
            count[j \in 0..Len(pc)] ==
                IF j = 0 THEN 0
                ELSE IF /\ Between(x_min, pc[j][1], x_max)
                        /\ Between(y_min, pc[j][2], y_max)
                        /\ Between(z_min, pc[j][3], z_max)
                     THEN count[j - 1] + 1
                     ELSE count[j - 1]
        IN  count[Len(pc)]]

\* get_pts_index_in_3dbox_: the mask itself is appended (line 243)
get_pts_index_in_3dbox_(pc, corners) ==
    [n \in 1..Len(corners) |->
        LET corner == corners[n]
            x_max == SeqMax(Col(corner, 1))
            x_min == SeqMin(Col(corner, 1))
            y_max == SeqMax(Col(corner, 2))
            y_min == SeqMin(Col(corner, 2))
            z_max == SeqMax(Col(corner, 3))
            z_min == SeqMin(Col(corner, 3))
        IN  np_array([j \in 1..Len(pc) |->
                        /\ InRange(pc[j][1], x_min, x_max)
                        /\ InRange(pc[j][2], y_min, y_max)
                        /\ InRange(pc[j][3], z_min, z_max)])]

(***************************************************************************)
(* _fill_trainval_infos                                                    *)
(* A frame is what the disk holds for one token:                           *)
(*   [token, label_files (one per camera 1..5), points, calib (one         *)
(*    [K, R, t] per camera), calib_ok, velo_ok]                            *)
(***************************************************************************)
cam_num_list == <<1, 2, 3, 4, 5>>

\* the join with the files counted from 1 in 'mask'
MergedAnnosFromOne(f) ==
    LET Rows(id) == LET a == get_label_anno(f.label_files[cam_num_list[id]])
                    IN  [i \in 1..Len(a) |-> [anno |-> a[i], mask |-> id]]
    IN  Rows(1) \o Rows(2) \o Rows(3) \o Rows(4) \o Rows(5)

\* rows of the five label files joined in file order, each with its 'mask'
\* (the 0-based position of its file), lines 388-401
MergedAnnos(f) ==
    LET Rows(id) == LET a == get_label_anno(f.label_files[cam_num_list[id]])
                    IN  [i \in 1..Len(a) |-> [anno |-> a[i], mask |-> id - 1]]
    IN  Rows(1) \o Rows(2) \o Rows(3) \o Rows(4) \o Rows(5)

\* np.unique(track_id, return_inverse=True): the sorted distinct ids and, for
\* each row, the 0-based place of its id among them
UniqueIds(rows) == {rows[i].anno.track_id : i \in 1..Len(rows)}

Inverse(rows) ==
    [i \in 1..Len(rows) |->
        Cardinality({u \in UniqueIds(rows) : u < rows[i].anno.track_id})]

\* 'remove overlapping annos', lines 404-407: every array is indexed by the
\* first len(unique) entries of the inverse
RemoveOverlapping(rows) ==
    LET mask_ == SubSeq(Inverse(rows), 1, Cardinality(UniqueIds(rows)))
    IN  [i \in 1..Len(mask_) |-> rows[mask_[i] + 1]]

\* the info record of one frame, lines 332-447 (train) and 511-618 (val)
FrameInfo(f, dedup) ==
    LET merged == MergedAnnos(f)
        data_anno == IF dedup THEN RemoveOverlapping(merged) ELSE merged
        n == Len(data_anno)
        gt_boxes == [i \in 1..n |->
                        data_anno[i].anno.location \o data_anno[i].anno.dimensions
                            \o <<data_anno[i].anno.rotation_y>>]
        gt_boxes_corners ==
            box_center_to_corner_3d(
                [i \in 1..n |-> SubSeq(gt_boxes[i], 1, 3)],
                [i \in 1..n |-> SubSeq(gt_boxes[i], 4, 6)],
                [i \in 1..n |-> gt_boxes[i][7]])
        num_pts_list == get_pts_in_3dbox_(f.points, gt_boxes_corners)
    IN  [token |-> f.token,
         cams |-> f.calib,
         gt_boxes |-> gt_boxes,
         gt_names |-> [i \in 1..n |-> data_anno[i].anno.name],
         num_lidar_pts |-> num_pts_list,
         valid_flag |-> [i \in 1..n |-> num_pts_list[i] > 0],
         cam_mask |-> [i \in 1..n |-> data_anno[i].mask]]

\* a frame at which the loop raises: open(calib_path) (line 291),
\* mmcv.check_file_exist(velo_path) (line 330), get_label_anno (line 389)
FrameRaises(f, tst) ==
    \/ ~f.calib_ok
    \/ ~f.velo_ok
    \/ ~tst /\ \E c \in 1..5 : LabelRaises(f.label_files[c])

\* info is appended inside 'if not test:' (lines 386, 447 and 565, 618)
FillInfos(scenes, tst, dedup) ==
    IF tst THEN <<>> ELSE [i \in 1..Len(scenes) |-> FrameInfo(scenes[i], dedup)]

(***************************************************************************)
(* spa_nus get_2d_boxes                                                    *)
(***************************************************************************)
\* the canvas of np.clip, lines 911-912
ClipWidth == 1920

ClipHeight == 1200

\* 0/0 of the float division: nan
IsNaN(num, den) == num = 0 /\ den = 0

\* int(np.minimum(num / den, hi)): the upper bound alone
ClipAbove(num, den, hi) ==
    IF den = 0 THEN (IF num > 0 THEN hi ELSE -hi)
    ELSE LET q == (num * den) \div (den * den)
         IN  IF q >= hi THEN hi ELSE q

\* int(np.clip(num / den, 0, hi)) for a quotient that is not nan; x / 0 is
\* +inf or -inf by the sign of x
ClipInt(num, den, hi) ==
    IF den = 0 THEN (IF num > 0 THEN hi ELSE 0)
    ELSE LET n == IF den < 0 THEN -num ELSE num
             d == IF den < 0 THEN -den ELSE den
         IN  IF n <= 0 THEN 0 ELSE IF n >= hi * d THEN hi ELSE n \div d

\* np.dot(extrinsic, corners_3d): the rotation without the translation
RotateOnly(cal, m) == Dot(cal.R, m)

\* np.dot(extrinsic, corners_3d) + translation.reshape(3, 1), in tenths
ToCamera(cal, m) ==
    LET r == Dot(cal.R, m)
    IN  np_array([k \in 1..3 |-> np_array([i \in 1..Len(r[k]) |-> r[k][i] + 10 * cal.t[k]])])

\* np.dot(intrinsic, corners_3d).T: one homogeneous <<x, y, z>> per corner
Homogeneous(cal, cam_corners) == Transpose(Dot(cal.K, cam_corners))

DefaultAttribute ==
    [car |-> "vehicle.parked", pedestrian |-> "pedestrian.moving",
     motorcycle |-> "cycle.without_rider", bicycle |-> "vehicle.moving"]

\* generate_record_: the coco_rec it returns
generate_record_(ann_rec, x1, y1, x2, y2, sample_data_token, filename) ==
    [file_name |-> filename,
     image_id |-> sample_data_token,
     area |-> (y2 - y1) * (x2 - x1),
     category_name |-> ann_rec.attribute_name,
     category_id |-> IndexOf(nus_categories, ann_rec.attribute_name),
     bbox |-> <<x1, y1, x2 - x1, y2 - y1>>,
     iscrowd |-> 0]

\* gt_boxes of label row a, the box whose corners count the points (line 887)
CountBox(a) == a.location \o a.dimensions \o <<AddHalfPi(a.rotation_y)>>

\* gt_boxes_ of label row a, the box whose corners are projected (line 897)
ProjectBox(a) == a.location \o a.dimensions \o <<a.rotation_y>>

\* ann_rec of label row a, lines 874-892
AnnRec(f, a) ==
    LET corners_3d == box_center_to_corner_3d_(CountBox(a))
    IN  [token |-> f.token,
         translation |-> a.location,
         size |-> a.dimensions,
         rotation |-> AddHalfPi(a.rotation_y),
         num_lidar_pts |-> get_pts_in_3dbox_(f.points, <<corners_3d>>)[1],
         attribute_name |-> a.name]

\* the 8 homogeneous image points of label row a, lines 897-908
Corners2d(cal, a) ==
    Homogeneous(cal, ToCamera(cal, box_center_to_corner_3d_(ProjectBox(a))))

\* int(nan) at lines 915-916
RowRaises(cal, a) ==
    \E q \in {Corners2d(cal, a)} :
        \E i \in 1..8 : IsNaN(q[i][1], q[i][3]) \/ IsNaN(q[i][2], q[i][3])

\* the record of label row a, lines 909-949
Record2d(f, cam, a) ==
    LET cal == f.calib[cam]
        q == Corners2d(cal, a)
        xs == [i \in 1..8 |-> ClipInt(q[i][1], q[i][3], ClipWidth)]
        ys == [i \in 1..8 |-> ClipInt(q[i][2], q[i][3], ClipHeight)]
        repro_rec == generate_record_(AnnRec(f, a), SeqMin(xs), SeqMin(ys),
                                      SeqMax(xs), SeqMax(ys), f.token, <<f.token, cam>>)
        c == Homogeneous(cal, ToCamera(cal, [k \in 1..3 |-> <<10 * a.location[k]>>]))[1]
    IN  [coco |-> repro_rec,
         center2d |-> [u |-> <<c[1], c[3]>>, v |-> <<c[2], c[3]>>, depth |-> c[3]],
         attribute_name |-> a.name,
         attribute_id |-> IndexOf(nus_attributes, DefaultAttribute[a.name])]

\* what get_2d_boxes returns when nothing raises: repro_recs.append is
\* inside 'if mono3d' (line 951)
Get2dReturn(f, cam, mono3d) ==
    LET label_ == get_label_anno(f.label_files[cam])
    IN  IF mono3d THEN [i \in 1..Len(label_) |-> Record2d(f, cam, label_[i])]
        ELSE <<>>

Get2dRaises(f, cam) ==
    \/ LabelRaises(f.label_files[cam])
    \/ \E i \in 1..Len(f.label_files[cam]) :
          RowRaises(f.calib[cam], get_label_anno(f.label_files[cam])[i])

(***************************************************************************)
(* SpecBox: each builder applied to one box                                *)
(***************************************************************************)
MaxSize == 2

Yaws == {<<5, 0>>, <<0, 5>>, <<-5, 0>>, <<0, -5>>, <<4, 3>>, <<3, 4>>, <<-3, 4>>, <<4, -3>>}

BoxCenters == {<<0, 0, 0>>, <<1, -2, 3>>}

BoxDims == (0..MaxSize) \X (0..MaxSize) \X (0..MaxSize)

NoCall == [token |-> "", cam |-> 0, mono3d |-> FALSE, outcome |-> "none"]

NusIdle ==
    /\ train_scenes = <<>>
    /\ val_scenes = <<>>
    /\ test = FALSE
    /\ stage = "idle"
    /\ train_nusc_infos = <<>>
    /\ val_nusc_infos = <<>>
    /\ cam_arg = NoCall
    /\ ann_recs = <<>>
    /\ repro_recs = <<>>

NoResult == [outcome |-> "none", rect |-> <<>>]

HullIdle ==
    /\ corner_coords = <<>>
    /\ imsize = <<0, 0>>
    /\ final_coords = NoResult

NoRecord == [outcome |-> "none", rec |-> <<>>]

RecIdle ==
    /\ gen_call = [fn |-> "none", category |-> "", box |-> <<0, 0, 0, 0>>]
    /\ coco_rec = NoRecord

CalcIdle ==
    /\ infos = <<>>
    /\ tasks = <<>>
    /\ dispatched = 0
    /\ running = {}
    /\ results = <<>>
    /\ ret_infos = <<>>
    /\ calc_pc = "idle"

NoMvxCall == [occluded |-> <<>>, mono3d |-> FALSE, calls |-> 0]

MvxIdle ==
    /\ mvx_info = [has_annos |-> FALSE, annos |-> <<>>]
    /\ mvx_call = NoMvxCall
    /\ mvx_recs = <<>>

NoCreateCall == [version |-> "", asserts |-> TRUE, nusc_ok |-> FALSE, splits |-> <<>>]

NoCreateOut ==
    [outcome |-> "none", train_scenes |-> <<>>, val_scenes |-> <<>>, test |-> FALSE,
     written |-> <<>>]

CreateIdle ==
    /\ create_call = NoCreateCall
    /\ create_out = NoCreateOut

NoReduceCall == [infos |-> <<>>, save_path |-> "None", back |-> FALSE]

NoReduceOut == [outcome |-> "none", save_dir_made |-> FALSE, written |-> <<>>]

ReduceIdle ==
    /\ reduce_call = NoReduceCall
    /\ reduce_out = NoReduceOut

NotCalled == [called |-> FALSE, ret |-> <<>>]

NoPtsOut == [loop |-> NotCalled, vec |-> NotCalled, index |-> NotCalled]

PtsIdle ==
    /\ pts_call = [pc |-> <<>>, corners |-> <<>>]
    /\ pts_out = NoPtsOut

NoExportCall == [fn |-> "none", frames |-> <<>>, mono3d |-> FALSE]

NoExportOut == [outcome |-> "none", annotations |-> <<>>, images |-> <<>>, coco_ann_id |-> 0]

ExportIdle ==
    /\ export_call = NoExportCall
    /\ export_out = NoExportOut

BoxIdle ==
    /\ gt_box = <<>>
    /\ builder = "none"
    /\ bounding_box = <<>>
    /\ corner_box = <<>>

InitBox ==
    /\ gt_box \in BoxCenters \X BoxDims \X Yaws
    /\ builder = "none"
    /\ bounding_box = <<>>
    /\ corner_box = <<>>
    /\ NusIdle
    /\ HullIdle
    /\ RecIdle
    /\ CalcIdle
    /\ MvxIdle
    /\ CreateIdle
    /\ ReduceIdle
    /\ PtsIdle
    /\ ExportIdle

\* box_center_to_corner_3d on a batch of one box; corner_box is kept as 3x8,
\* axis by axis, for both builders
BuildBatch ==
    /\ builder = "none"
    /\ builder' = "batch"
    /\ bounding_box' = batch_bounding_box(gt_box[2])
    /\ corner_box' = Transpose(box_center_to_corner_3d(<<gt_box[1]>>, <<gt_box[2]>>, <<gt_box[3]>>)[1])
    /\ UNCHANGED <<gt_box, nusvars, hullvars, recvars, calcvars, mvxvars, createvars, reducevars, ptsvars, exportvars>>

BuildSingle ==
    /\ builder = "none"
    /\ builder' = "single"
    /\ bounding_box' = single_bounding_box(gt_box[1] \o gt_box[2] \o <<gt_box[3]>>)
    /\ corner_box' = box_center_to_corner_3d_(gt_box[1] \o gt_box[2] \o <<gt_box[3]>>)
    /\ UNCHANGED <<gt_box, nusvars, hullvars, recvars, calcvars, mvxvars, createvars, reducevars, ptsvars, exportvars>>

NextBox == BuildBatch \/ BuildSingle

SpecBox == InitBox /\ [][NextBox]_vars

(***************************************************************************)
(* Spec: create_spa_nus_infos (_fill_trainval_infos) followed by           *)
(* export_2d_annotation's calls of get_2d_boxes                            *)
(***************************************************************************)
MaxRows == 2

MaxPts == 2

\* an intrinsic matrix and five extrinsic rotations (camera z is the
\* optical axis): identity, looking along lidar +x, +y, -y, -x
K0 == << <<1000, 0, 960>>, <<0, 1000, 540>>, <<0, 0, 1>> >>

CamRots ==
    << << <<1, 0, 0>>, <<0, 1, 0>>, <<0, 0, 1>> >>,
       << <<0, -1, 0>>, <<0, 0, -1>>, <<1, 0, 0>> >>,
       << <<1, 0, 0>>, <<0, 0, -1>>, <<0, 1, 0>> >>,
       << <<-1, 0, 0>>, <<0, 0, -1>>, <<0, -1, 0>> >>,
       << <<0, 1, 0>>, <<0, 0, -1>>, <<-1, 0, 0>> >> >>

Rig(t) == [c \in 1..5 |-> [K |-> K0, R |-> CamRots[c], t |-> t]]

\* a label row of 16 fields for box <<center, <<l, w, h>>, yaw>>
Row(box, tid) ==
    [name |-> "car", track_id |-> tid,
     hwl |-> <<box[2][3], box[2][2], box[2][1]>>,
     location |-> box[1], rotation_y |-> box[3], nf |-> 16]

\* the five label files with rows first in file c1 and rows rest in file 5
Files(c1, first, rest) ==
    [c \in 1..5 |-> (IF c = c1 THEN first ELSE <<>>) \o (IF c = 5 THEN rest ELSE <<>>)]

Frame(files, pts, rig) ==
    [token |-> "t1", label_files |-> files, points |-> pts, calib |-> rig,
     calib_ok |-> TRUE, velo_ok |-> TRUE]

\* family A: boxes and point clouds for the membership test
BoxSetA ==
    {<<0, 0, 0>>, <<1, 0, 0>>}
        \X {<<2, 2, 2>>, <<1, 2, 2>>, <<4, 3, 2>>, <<2, 2, 0>>, <<0, 2, 2>>}
        \X {<<5, 0>>, <<0, 5>>, <<3, 4>>}

ExtraBoxes == {<< <<0, 0, 0>>, <<2, 2, 2>>, <<3, 4>> >>}

\* points in tenths: the centers, points on a face, points past a face
PtSetA ==
    {<<0, 0, 0>>, <<6, 0, 0>>, <<10, 0, 0>>, <<11, 0, 0>>, <<-11, 0, 0>>,
     <<21, 0, 0>>, <<0, 6, 0>>, <<0, 10, 0>>, <<0, 11, 0>>, <<0, -11, 0>>,
     <<0, 0, 10>>, <<0, 0, 11>>, <<10, 10, 10>>, <<6, 6, 0>>}

ExtraPts == {<<0, 0, 0>>}

\* sequences of length 0..n over S
SeqsUpTo(S, n) == UNION {[1..k -> S] : k \in 0..n}

RowsA ==
    {<<>>} \cup
    {<<Row(b, 1)>> \o [i \in 1..Len(e) |-> Row(e[i], i + 1)] :
        b \in BoxSetA, e \in SeqsUpTo(ExtraBoxes, MaxRows - 1)}

CloudsA ==
    {<<>>} \cup {<<p>> \o e : p \in PtSetA, e \in SeqsUpTo(ExtraPts, MaxPts - 1)}

FramesA ==
    {Frame(Files(1, [i \in 1..(IF Len(r) = 0 THEN 0 ELSE 1) |-> r[i]],
                 [i \in 1..(IF Len(r) = 0 THEN 0 ELSE Len(r) - 1) |-> r[i + 1]]),
           pts, Rig(<<0, 0, 10>>)) :
        r \in RowsA, pts \in CloudsA}

\* family B: one box seen by each camera from several positions
BoxSetB ==
    {<<0, 0, 0>>} \X {<<2, 2, 2>>, <<4, 2, 2>>, <<0, 0, 2>>} \X {<<5, 0>>, <<3, 4>>}

Translations == {<<0, 0, 10>>, <<0, 0, 1>>, <<0, 0, 0>>, <<0, 0, -10>>, <<-10, 0, 10>>}

FramesB ==
    {Frame(Files(c, <<Row(b, 1)>>, <<>>), pts, Rig(t)) :
        c \in 1..5, b \in BoxSetB, pts \in {<<>>, <<<<0, 0, 0>>>>}, t \in Translations}

\* family C: two frames, label files of every shape, missing files
RowC(name, nf) ==
    [Row(<< <<0, 0, 0>>, <<2, 2, 2>>, <<5, 0>> >>, 1) EXCEPT !.name = name, !.nf = nf]

ContentsC ==
    {<<>>, <<RowC("car", 16)>>, <<RowC("car", 15)>>, <<RowC("car", 17)>>,
     <<RowC("car", 18)>>, <<RowC("car", 16), RowC("car", 17)>>,
     <<RowC("car", 17), RowC("car", 16)>>, <<RowC("cyclist", 16)>>,
     <<RowC("DontCare", 16)>>}

FramesC(token) ==
    {[Frame(Files(1, content, <<>>), << <<0, 0, 0>> >>, Rig(<<0, 0, 10>>))
        EXCEPT !.token = token] : content \in ContentsC}
    \cup
    {[Frame(Files(1, <<RowC("car", 16)>>, <<>>), << <<0, 0, 0>> >>, Rig(<<0, 0, 10>>))
        EXCEPT !.token = token, !.calib_ok = ok[1], !.velo_ok = ok[2]] :
            ok \in {<<FALSE, TRUE>>, <<TRUE, FALSE>>}}

\* family D: one object seen by several cameras: rows with repeated track
\* ids, the first row in label file c1 and the others in label file 5
MaxTracked == 3

RowD(i, tid) == Row(<< <<i - 1, 0, 0>>, <<2, 2, 2>>, <<5, 0>> >>, tid)

FramesD ==
    {Frame(Files(c1, [i \in 1..(IF Len(tids) = 0 THEN 0 ELSE 1) |-> RowD(i, tids[i])],
                 [i \in 1..(IF Len(tids) = 0 THEN 0 ELSE Len(tids) - 1) |->
                     RowD(i + 1, tids[i + 1])]),
           << <<0, 0, 0>> >>, Rig(<<0, 0, 10>>)) :
        c1 \in {1, 3}, tids \in SeqsUpTo({1, 2}, MaxTracked)}

Init ==
    /\ BoxIdle
    /\ HullIdle
    /\ RecIdle
    /\ CalcIdle
    /\ MvxIdle
    /\ CreateIdle
    /\ ReduceIdle
    /\ PtsIdle
    /\ ExportIdle
    /\ \/ \E f \in FramesA \cup FramesB \cup FramesD :
             \/ train_scenes = <<f>> /\ val_scenes = <<>>
             \/ train_scenes = <<>> /\ val_scenes = <<f>> /\ f \in FramesB \cup FramesD
             \/ train_scenes = <<f>> /\ val_scenes = <<f>> /\ f \in FramesD
       \/ \E f1 \in FramesC("t1"), f2 \in FramesC("t2") :
             train_scenes = <<f1, f2>> /\ val_scenes = <<>>
    /\ test = FALSE
    /\ stage = "start"
    /\ train_nusc_infos = <<>>
    /\ val_nusc_infos = <<>>
    /\ cam_arg = NoCall
    /\ ann_recs = <<>>
    /\ repro_recs = <<>>

AllScenes == Range(train_scenes) \cup Range(val_scenes)

FrameOf(token) == CHOOSE f \in AllScenes : f.token = token

\* _fill_trainval_infos(nusc, train_scenes, val_scenes, test): an exception
\* at any frame ends the call, and nothing is returned
FillTrainvalInfos ==
    /\ stage = "start"
    /\ IF \E f \in AllScenes : FrameRaises(f, test)
       THEN /\ stage' = "raised"
            /\ UNCHANGED <<train_nusc_infos, val_nusc_infos>>
       ELSE /\ stage' = "filled"
            /\ train_nusc_infos' = FillInfos(train_scenes, test, TRUE)
            /\ val_nusc_infos' = FillInfos(val_scenes, test, FALSE)
    /\ UNCHANGED <<boxvars, hullvars, recvars, calcvars, mvxvars, createvars, reducevars, ptsvars, exportvars, train_scenes, val_scenes, test, cam_arg, ann_recs, repro_recs>>

\* get_2d_boxes(nusc, cam_info, info, visibilities, mono3d) for one info
\* record of the info file and one of its five cameras
Get2dBoxes ==
    /\ stage = "filled"
    /\ \E info \in Range(train_nusc_infos) \cup Range(val_nusc_infos),
          cam \in 1..5, mono3d \in BOOLEAN :
          LET f == FrameOf(info.token)
          IN  IF Get2dRaises(f, cam)
              THEN /\ cam_arg' = [token |-> info.token, cam |-> cam,
                                  mono3d |-> mono3d, outcome |-> "raised"]
                   /\ ann_recs' = <<>>
                   /\ repro_recs' = <<>>
              ELSE /\ cam_arg' = [token |-> info.token, cam |-> cam,
                                  mono3d |-> mono3d, outcome |-> "returned"]
                   /\ ann_recs' = [i \in 1..Len(f.label_files[cam]) |->
                                     AnnRec(f, get_label_anno(f.label_files[cam])[i])]
                   /\ repro_recs' = Get2dReturn(f, cam, mono3d)
    /\ UNCHANGED <<boxvars, hullvars, recvars, calcvars, mvxvars, createvars, reducevars, ptsvars, exportvars, train_scenes, val_scenes, test, stage,
                   train_nusc_infos, val_nusc_infos>>

Next == FillTrainvalInfos \/ Get2dBoxes

Spec == Init /\ [][Next]_vars

(***************************************************************************)
(* post_process_coords                                                     *)
(* A coordinate of the intersection is a fraction <<n, d>> with d > 0 in   *)
(* lowest terms; the input points have whole coordinates.                  *)
(***************************************************************************)
RECURSIVE GCD(_, _)
GCD(a, b) == IF b = 0 THEN a ELSE GCD(b, a % b)

Frac(n, d) ==
    LET g == GCD(Abs(n), Abs(d))
    IN  IF d < 0 THEN <<(-n) \div g, (-d) \div g>> ELSE <<n \div g, d \div g>>

FracLeq(a, b) == a[1] * b[2] <= b[1] * a[2]

FracSub(a, b) == <<a[1] * b[2] - b[1] * a[2], a[2] * b[2]>>

FracMul(a, b) == <<a[1] * b[1], a[2] * b[2]>>

\* twice the signed area of the triangle p, q, r of whole points
Orient(p, q, r) == (q[1] - p[1]) * (r[2] - p[2]) - (q[2] - p[2]) * (r[1] - p[1])

\* img_canvas = box(0, 0, imsize[0], imsize[1])
InCanvas(p, size) == 0 <= p[1] /\ p[1] <= size[1] /\ 0 <= p[2] /\ p[2] <= size[2]

CanvasCorners(size) == {<<0, 0>>, <<size[1], 0>>, <<0, size[2]>>, <<size[1], size[2]>>}

\* c is in MultiPoint(coords).convex_hull: it is in the triangle of three of
\* the points (a point of a convex hull always is), a triangle that may be
\* flat or a single point
InHull(c, coords) ==
    \E p \in Range(coords), q \in Range(coords), r \in Range(coords) :
        /\ \/ Orient(p, q, c) >= 0 /\ Orient(q, r, c) >= 0 /\ Orient(r, p, c) >= 0
           \/ Orient(p, q, c) <= 0 /\ Orient(q, r, c) <= 0 /\ Orient(r, p, c) <= 0
        /\ \A k \in 1..2 : /\ \E t \in {p, q, r} : t[k] <= c[k]
                           /\ \E t \in {p, q, r} : c[k] <= t[k]

\* where the segment a-b meets the canvas edge on the line coordinate k = c
Crossings(a, b, size) ==
    {<<Frac(c, 1), Frac(a[2] * (b[1] - a[1]) + (c - a[1]) * (b[2] - a[2]), b[1] - a[1])>> :
        c \in {x \in {0, size[1]} :
                 /\ a[1] # b[1]
                 /\ (a[1] - x) * (b[1] - x) <= 0
                 /\ LET n == (a[2] * (b[1] - a[1]) + (x - a[1]) * (b[2] - a[2])) * (b[1] - a[1])
                        d == (b[1] - a[1]) * (b[1] - a[1])
                    IN  0 <= n /\ n <= size[2] * d}}
    \cup
    {<<Frac(a[1] * (b[2] - a[2]) + (c - a[2]) * (b[1] - a[1]), b[2] - a[2]), Frac(c, 1)>> :
        c \in {y \in {0, size[2]} :
                 /\ a[2] # b[2]
                 /\ (a[2] - y) * (b[2] - y) <= 0
                 /\ LET n == (a[1] * (b[2] - a[2]) + (y - a[2]) * (b[1] - a[1])) * (b[2] - a[2])
                        d == (b[2] - a[2]) * (b[2] - a[2])
                    IN  0 <= n /\ n <= size[1] * d}}

\* points that span polygon_from_2d_box.intersection(img_canvas): the input
\* points on the canvas, the canvas corners in the hull, and the crossings of
\* the segments between input points with the canvas edges
IntersectionPoints(coords, size) ==
    {<<Frac(p[1], 1), Frac(p[2], 1)>> : p \in {q \in Range(coords) : InCanvas(q, size)}}
    \cup {<<Frac(c[1], 1), Frac(c[2], 1)>> : c \in {q \in CanvasCorners(size) : InHull(q, coords)}}
    \cup UNION {Crossings(a, b, size) : a \in Range(coords), b \in Range(coords)}

\* the intersection has no area: shapely gives a Point or a LineString
Flat(pts) ==
    \A p \in pts, q \in pts, r \in pts :
        FracSub(FracMul(FracSub(q[1], p[1]), FracSub(r[2], p[2])),
                FracMul(FracSub(q[2], p[2]), FracSub(r[1], p[1])))[1] = 0

FracMin(S) == CHOOSE x \in S : \A y \in S : FracLeq(x, y)

FracMax(S) == CHOOSE x \in S : \A y \in S : FracLeq(y, x)

\* post_process_coords(corner_coords, imsize): None, the rectangle
\* <<min_x, min_y, max_x, max_y>>, or the AttributeError of
\* img_intersection.exterior on a Point or LineString
post_process_coords(coords, size) ==
    LET pts == IntersectionPoints(coords, size)
    IN  IF pts = {} THEN [outcome |-> "None", rect |-> <<>>]
        ELSE IF Flat(pts) THEN [outcome |-> "AttributeError", rect |-> <<>>]
        ELSE [outcome |-> "rect",
              rect |-> <<FracMin({p[1] : p \in pts}), FracMin({p[2] : p \in pts}),
                         FracMax({p[1] : p \in pts}), FracMax({p[2] : p \in pts})>>]

(***************************************************************************)
(* SpecHull: post_process_coords applied to one list of points             *)
(***************************************************************************)
MaxCorners == 3

PixelsX == {-2, 0, 1, 3, 6}

PixelsY == {-1, 1, 2, 5}

Canvases == {<<4, 3>>}

InitHull ==
    /\ corner_coords \in SeqsUpTo(PixelsX \X PixelsY, MaxCorners)
    /\ imsize \in Canvases
    /\ final_coords = NoResult
    /\ BoxIdle
    /\ NusIdle
    /\ RecIdle
    /\ CalcIdle
    /\ MvxIdle
    /\ CreateIdle
    /\ ReduceIdle
    /\ PtsIdle
    /\ ExportIdle

PostProcessCoords ==
    /\ final_coords.outcome = "none"
    /\ final_coords' = post_process_coords(corner_coords, imsize)
    /\ UNCHANGED <<boxvars, nusvars, recvars, calcvars, mvxvars, createvars, reducevars, ptsvars, exportvars, corner_coords, imsize>>

NextHull == PostProcessCoords

SpecHull == InitHull /\ [][NextHull]_vars

(***************************************************************************)
(* generate_record (spa_mvx) and generate_record_ (spa_nus)                *)
(***************************************************************************)
spa_mvx_categories == <<"Pedestrian", "Cyclist", "Car", "Motorcyclist">>

\* the coco_rec both functions fill, lines 646-654 (spa_mvx) and 766-776
CocoRec(cat_name, categories, x1, y1, x2, y2, sample_data_token, filename) ==
    [file_name |-> filename,
     image_id |-> sample_data_token,
     area |-> (y2 - y1) * (x2 - x1),
     category_name |-> cat_name,
     category_id |-> IndexOf(categories, cat_name),
     bbox |-> <<x1, y1, x2 - x1, y2 - y1>>,
     iscrowd |-> 0]

\* spa_mvx generate_record: None for a name outside spa_mvx_categories
generate_record(ann_rec, x1, y1, x2, y2, sample_data_token, filename) ==
    IF ann_rec.name \notin Range(spa_mvx_categories)
    THEN [outcome |-> "None", rec |-> <<>>]
    ELSE [outcome |-> "record",
          rec |-> CocoRec(ann_rec.name, spa_mvx_categories, x1, y1, x2, y2,
                          sample_data_token, filename)]

\* spa_nus generate_record_ called on any ann_rec: the test of the category
\* is commented out (lines 770-771), nus_categories.index raises ValueError
\* for a name outside the tuple
GenerateRecord_Call(ann_rec, x1, y1, x2, y2, sample_data_token, filename) ==
    IF ann_rec.attribute_name \notin Range(nus_categories)
    THEN [outcome |-> "ValueError", rec |-> <<>>]
    ELSE [outcome |-> "record",
          rec |-> generate_record_(ann_rec, x1, y1, x2, y2, sample_data_token, filename)]

(***************************************************************************)
(* SpecRecord: one call of a record generator                              *)
(***************************************************************************)
MaxPixel == 2

CategoryNames ==
    Range(nus_categories) \cup Range(spa_mvx_categories) \cup {"truck", "DontCare"}

InitRecord ==
    /\ gen_call \in [fn : {"none"}, category : CategoryNames,
                     box : (0..MaxPixel) \X (0..MaxPixel) \X (0..MaxPixel) \X (0..MaxPixel)]
    /\ coco_rec = NoRecord
    /\ BoxIdle
    /\ NusIdle
    /\ HullIdle
    /\ CalcIdle
    /\ MvxIdle
    /\ CreateIdle
    /\ ReduceIdle
    /\ PtsIdle
    /\ ExportIdle

GenerateRecordMvx ==
    /\ gen_call.fn = "none"
    /\ gen_call' = [gen_call EXCEPT !.fn = "generate_record"]
    /\ coco_rec' = generate_record([name |-> gen_call.category],
                                   gen_call.box[1], gen_call.box[2], gen_call.box[3],
                                   gen_call.box[4], "token", "file")
    /\ UNCHANGED <<boxvars, nusvars, hullvars, calcvars, mvxvars, createvars, reducevars, ptsvars, exportvars>>

GenerateRecordNus ==
    /\ gen_call.fn = "none"
    /\ gen_call' = [gen_call EXCEPT !.fn = "generate_record_"]
    /\ coco_rec' = GenerateRecord_Call([attribute_name |-> gen_call.category],
                                       gen_call.box[1], gen_call.box[2], gen_call.box[3],
                                       gen_call.box[4], "token", "file")
    /\ UNCHANGED <<boxvars, nusvars, hullvars, calcvars, mvxvars, createvars, reducevars, ptsvars, exportvars>>

NextRecord == GenerateRecordMvx \/ GenerateRecordNus

SpecRecord == InitRecord /\ [][NextRecord]_vars

(***************************************************************************)
(* _NumPointsInGTCalculater (spa_mvx)                                      *)
(* An info is [name, inside, num_points_in_gt]: the names of annos, the    *)
(* number of points points_in_rbbox finds in each box, and the counts      *)
(* calculate_single stores (<<>> before it ran).                           *)
(***************************************************************************)
\* calculate_single, lines 94-107
calculate_single(info) ==
    LET num_obj == Cardinality({i \in 1..Len(info.name) : info.name[i] # "DontCare"})
        num_ignored == Len(info.name) - num_obj
    IN  [info EXCEPT !.num_points_in_gt =
            SubSeq(info.inside, 1, num_obj) \o [i \in 1..num_ignored |-> -1]]

\* the results the pool may hand over next, in any order of completion
YieldableUnordered(res, ret) ==
    {i \in 1..Len(res) : res[i].done /\ i \notin Range(ret)}

\* the results track_parallel_progress may collect next: the pool hands
\* them over in the order of the tasks (line 110, keep_order left at its
\* default)
Yieldable(res, ret) ==
    {i \in 1..Len(res) : res[i].done /\ i = Len(ret) + 1}

(***************************************************************************)
(* SpecCalc: calculate(infos) with a pool of workers                       *)
(***************************************************************************)
MaxInfos == 3

NumWorker == 2

InfosIn ==
    {[name |-> <<"Car">>, inside |-> <<1>>, num_points_in_gt |-> <<>>],
     [name |-> <<"Car", "DontCare">>, inside |-> <<2, 0>>, num_points_in_gt |-> <<>>],
     [name |-> <<"DontCare">>, inside |-> <<0>>, num_points_in_gt |-> <<>>],
     [name |-> <<"DontCare", "Car">>, inside |-> <<0, 2>>, num_points_in_gt |-> <<>>]}

InitCalc ==
    /\ infos \in SeqsUpTo(InfosIn, MaxInfos)
    /\ tasks = <<>>
    /\ dispatched = 0
    /\ running = {}
    /\ results = <<>>
    /\ ret_infos = <<>>
    /\ calc_pc = "idle"
    /\ BoxIdle
    /\ NusIdle
    /\ HullIdle
    /\ RecIdle
    /\ MvxIdle
    /\ CreateIdle
    /\ ReduceIdle
    /\ PtsIdle
    /\ ExportIdle

\* calculate: mmcv.track_parallel_progress(self.calculate_single, infos, ...)
StartPool ==
    /\ calc_pc = "idle"
    /\ calc_pc' = "pool"
    /\ tasks' = infos
    /\ results' = [i \in 1..Len(infos) |-> [done |-> FALSE, order |-> 0, info |-> infos[i]]]
    /\ UNCHANGED <<boxvars, nusvars, hullvars, recvars, mvxvars, createvars, reducevars, ptsvars, exportvars, infos, dispatched, running, ret_infos>>

\* a free worker takes the next task
Dispatch ==
    /\ calc_pc = "pool"
    /\ dispatched < Len(tasks)
    /\ Cardinality(running) < NumWorker
    /\ dispatched' = dispatched + 1
    /\ running' = running \cup {dispatched + 1}
    /\ UNCHANGED <<boxvars, nusvars, hullvars, recvars, mvxvars, createvars, reducevars, ptsvars, exportvars, infos, tasks, results, ret_infos, calc_pc>>

\* a worker finishes calculate_single on its task
FinishSingle ==
    /\ calc_pc = "pool"
    /\ \E i \in running :
          /\ running' = running \ {i}
          /\ results' = [results EXCEPT ![i] =
                [done |-> TRUE,
                 order |-> 1 + Cardinality({j \in 1..Len(results) : results[j].done}),
                 info |-> calculate_single(tasks[i])]]
    /\ UNCHANGED <<boxvars, nusvars, hullvars, recvars, mvxvars, createvars, reducevars, ptsvars, exportvars, infos, tasks, dispatched, ret_infos, calc_pc>>

\* track_parallel_progress collects one more result
Collect ==
    /\ calc_pc = "pool"
    /\ \E i \in Yieldable(results, ret_infos) : ret_infos' = Append(ret_infos, i)
    /\ UNCHANGED <<boxvars, nusvars, hullvars, recvars, mvxvars, createvars, reducevars, ptsvars, exportvars, infos, tasks, dispatched, running, results, calc_pc>>

\* for i, ret_info in enumerate(ret_infos): infos[i] = ret_info
AssignBack ==
    /\ calc_pc = "pool"
    /\ Len(ret_infos) = Len(tasks)
    /\ infos' = [i \in 1..Len(ret_infos) |-> results[ret_infos[i]].info]
    /\ calc_pc' = "done"
    /\ UNCHANGED <<boxvars, nusvars, hullvars, recvars, mvxvars, createvars, reducevars, ptsvars, exportvars, tasks, dispatched, running, results, ret_infos>>

NextCalc == StartPool \/ Dispatch \/ FinishSingle \/ Collect \/ AssignBack

SpecCalc == InitCalc /\ [][NextCalc]_vars

(***************************************************************************)
(* spa_mvx get_2d_boxes                                                    *)
(* info is [has_annos, annos]; annos, a dictionary of arrays with one      *)
(* entry per annotation, is kept as an array of rows                       *)
(*   [name, occluded, final_coords, depth].                                *)
(* final_coords[ii] is what post_process_coords returns for camera ii on   *)
(* the corners in front of the sensor, [none, rect], and depth[ii] the     *)
(* depth points_cam2img gives the box center: both come from library code  *)
(* and are inputs here.                                                    *)
(***************************************************************************)
\* arr[mask] of an array and a list of booleans
SelectMask(arr, mask) ==
    LET F[i \in 0..Len(arr)] ==
            IF i = 0 THEN <<>>
            ELSE IF mask[i] THEN Append(F[i - 1], arr[i]) ELSE F[i - 1]
    IN  F[Len(arr)]

\* lines 503-506: ann_dicts is info['annos'] itself, and every array of it
\* is replaced by its masked selection
FilterAnnos(annos, occluded) ==
    SelectMask(annos, [i \in 1..Len(annos) |-> annos[i].occluded \in Range(occluded)])

\* lines 566-597 for annotation ann_rec and camera ii: nothing (continue) or
\* the one element appended to repro_recs, which is None when
\* generate_record returns None
CameraRecord(ann_rec, ii, mono3d) ==
    IF ann_rec.final_coords[ii].none THEN <<>>
    ELSE LET rect == ann_rec.final_coords[ii].rect
             repro_rec == generate_record(ann_rec, rect[1], rect[2], rect[3], rect[4],
                                          <<"image_idx", ii>>, <<"image_path", ii>>)
         IN  IF mono3d /\ repro_rec.outcome # "None"
             THEN IF ann_rec.depth[ii] <= 0 THEN <<>>
                  ELSE << [coco |-> repro_rec, mono |-> TRUE,
                           center2d_depth |-> ann_rec.depth[ii], attribute_id |-> -1] >>
             ELSE << [coco |-> repro_rec, mono |-> FALSE,
                      center2d_depth |-> 0, attribute_id |-> 0] >>

\* the records of the five cameras of calib_list, in order
AnnotationRecords(ann_rec, mono3d) ==
    CameraRecord(ann_rec, 1, mono3d) \o CameraRecord(ann_rec, 2, mono3d)
        \o CameraRecord(ann_rec, 3, mono3d) \o CameraRecord(ann_rec, 4, mono3d)
        \o CameraRecord(ann_rec, 5, mono3d)

\* repro_recs of the call on the filtered annotations
MvxRecords(ann_recs_, mono3d) ==
    LET F[i \in 0..Len(ann_recs_)] ==
            IF i = 0 THEN <<>> ELSE F[i - 1] \o AnnotationRecords(ann_recs_[i], mono3d)
    IN  F[Len(ann_recs_)]

(***************************************************************************)
(* SpecMvx: calls of spa_mvx get_2d_boxes on one info                      *)
(***************************************************************************)
MaxAnnos == 2

MaxCalls == 2

NoCoord == [none |-> TRUE, rect |-> <<0, 0, 0, 0>>]

Seen == [none |-> FALSE, rect |-> <<0, 0, 2, 2>>]

\* per camera: the box is seen by no camera, by the first, by the first
\* with its center behind the sensor, by the first two
Projections ==
    {[final_coords |-> <<NoCoord, NoCoord, NoCoord, NoCoord, NoCoord>>,
      depth |-> <<-10, -10, -10, -10, -10>>],
     [final_coords |-> <<Seen, NoCoord, NoCoord, NoCoord, NoCoord>>,
      depth |-> <<10, -10, -10, -10, -10>>],
     [final_coords |-> <<Seen, NoCoord, NoCoord, NoCoord, NoCoord>>,
      depth |-> <<-1, -10, -10, -10, -10>>],
     [final_coords |-> <<Seen, Seen, NoCoord, NoCoord, NoCoord>>,
      depth |-> <<10, 10, -10, -10, -10>>]}

AnnosRows ==
    {[name |-> n, occluded |-> o, final_coords |-> p.final_coords, depth |-> p.depth] :
        n \in {"Car", "DontCare"}, o \in {0, 1}, p \in Projections}

OccludedLists == {<<0, 1, 2, 3>>, <<0>>, <<1>>}

InitMvx ==
    /\ \/ mvx_info = [has_annos |-> FALSE, annos |-> <<>>]
       \/ \E a \in SeqsUpTo(AnnosRows, MaxAnnos) : mvx_info = [has_annos |-> TRUE, annos |-> a]
    /\ mvx_call = NoMvxCall
    /\ mvx_recs = <<>>
    /\ CreateIdle
    /\ ReduceIdle
    /\ PtsIdle
    /\ ExportIdle
    /\ BoxIdle
    /\ NusIdle
    /\ HullIdle
    /\ RecIdle
    /\ CalcIdle

\* get_2d_boxes(info, occluded, mono3d)
Get2dBoxesMvx ==
    /\ mvx_call.calls < MaxCalls
    /\ \E occluded \in OccludedLists, mono3d \in BOOLEAN :
          /\ mvx_call' = [occluded |-> occluded, mono3d |-> mono3d, calls |-> mvx_call.calls + 1]
          /\ IF ~mvx_info.has_annos
             THEN mvx_recs' = <<>> /\ mvx_info' = mvx_info
             ELSE /\ mvx_info' = [mvx_info EXCEPT !.annos = FilterAnnos(mvx_info.annos, occluded)]
                  /\ mvx_recs' = MvxRecords(FilterAnnos(mvx_info.annos, occluded), mono3d)
    /\ UNCHANGED <<boxvars, nusvars, hullvars, recvars, calcvars, createvars, reducevars, ptsvars, exportvars>>

NextMvx == Get2dBoxesMvx

SpecMvx == InitMvx /\ [][NextMvx]_vars

(***************************************************************************)
(* create_spa_nus_infos                                                    *)
(* A run is [version, asserts, nusc_ok, splits]: the version argument,     *)
(* whether the interpreter executes assert statements (python -O drops     *)
(* them), whether NuScenes(version, dataroot) loads, and the frame lists   *)
(* of nuscenes.utils.splits and of ImageSets/train.txt and val.txt.        *)
(***************************************************************************)
\* line 49
available_vers == {"v1.0-spa-trainval", "v1.0-test", "v1.0-mini"}

\* the versions the if/elif chain of lines 51-66 has a branch for
BranchVersions == {"v1.0-trainval", "v1.0-test", "v1.0-mini", "v1.0-spa-trainval"}

\* 'test' in version (line 85), on the versions of the model
TestInVersion(version) == version \in {"v1.0-test", "v1.0-spa-test"}

\* <<train_scenes, val_scenes>> of lines 51-66
SelectScenes(version, splits) ==
    CASE version = "v1.0-trainval" -> <<splits.train, splits.val>>
      [] version = "v1.0-test" -> <<splits.test, <<>>>>
      [] version = "v1.0-mini" -> <<splits.mini_train, splits.mini_val>>
      [] version = "v1.0-spa-trainval" -> <<splits.imageset_train, splits.imageset_val>>

CreateRaised(exception) == [NoCreateOut EXCEPT !.outcome = exception]

\* the files mmcv.dump writes, in order (lines 93-111)
Dumped(version, tst, train_infos, val_infos) ==
    IF tst THEN << [path |-> "infos_test.pkl", infos |-> train_infos, version |-> version] >>
    ELSE << [path |-> "infos_train.pkl", infos |-> train_infos, version |-> version],
            [path |-> "infos_val.pkl", infos |-> val_infos, version |-> version] >>

create_spa_nus_infos(call) ==
    IF ~call.nusc_ok THEN CreateRaised("NuScenes")
    ELSE IF call.asserts /\ call.version \notin available_vers
    THEN CreateRaised("AssertionError")
    ELSE IF call.version \notin BranchVersions THEN CreateRaised("ValueError")
    ELSE LET scenes == SelectScenes(call.version, call.splits)
             tst == TestInVersion(call.version)
         IN  IF \E f \in Range(scenes[1]) \cup Range(scenes[2]) : FrameRaises(f, tst)
             THEN [NoCreateOut EXCEPT !.outcome = "fill raised", !.train_scenes = scenes[1],
                                      !.val_scenes = scenes[2], !.test = tst]
             ELSE [outcome |-> "done", train_scenes |-> scenes[1],
                   val_scenes |-> scenes[2], test |-> tst,
                   written |-> Dumped(call.version, tst, FillInfos(scenes[1], tst, TRUE),
                                      FillInfos(scenes[2], tst, FALSE))]

(***************************************************************************)
(* SpecCreate: one run of create_spa_nus_infos                             *)
(***************************************************************************)
Versions == BranchVersions \cup {"v1.0-spa-test", "v2.0"}

\* a frame of a split: its label file is good, has a 15-field row, or its
\* calibration file is missing
SplitFrame(token, kind) ==
    [Frame(Files(1, IF kind = "short row" THEN <<RowC("car", 15)>> ELSE <<RowC("car", 16)>>, <<>>),
           << <<0, 0, 0>> >>, Rig(<<0, 0, 10>>))
        EXCEPT !.token = token, !.calib_ok = (kind # "no calib")]

SplitsIn ==
    {[train |-> <<SplitFrame("train", k)>>,
      val |-> v,
      test |-> <<SplitFrame("test", k)>>,
      mini_train |-> <<SplitFrame("mini_train", k)>>,
      mini_val |-> <<SplitFrame("mini_val", "good")>>,
      imageset_train |-> <<SplitFrame("imageset_train", k)>>,
      imageset_val |-> <<SplitFrame("imageset_val", "good")>>] :
        k \in {"good", "short row", "no calib"},
        v \in {<<>>, <<SplitFrame("val", "good")>>}}

InitCreate ==
    /\ \E version \in Versions, asserts \in BOOLEAN, nusc_ok \in BOOLEAN, splits \in SplitsIn :
          create_call = [version |-> version, asserts |-> asserts,
                         nusc_ok |-> nusc_ok, splits |-> splits]
    /\ create_out = NoCreateOut
    /\ BoxIdle
    /\ NusIdle
    /\ HullIdle
    /\ RecIdle
    /\ CalcIdle
    /\ MvxIdle
    /\ ReduceIdle
    /\ PtsIdle
    /\ ExportIdle

\* create_spa_nus_infos(root_path, info_prefix, version)
CreateSpaNusInfos ==
    /\ create_out.outcome = "none"
    /\ create_out' = create_spa_nus_infos(create_call)
    /\ UNCHANGED <<boxvars, nusvars, hullvars, recvars, calcvars, mvxvars, reducevars, ptsvars, exportvars, create_call>>

NextCreate == CreateSpaNusInfos

SpecCreate == InitCreate /\ [][NextCreate]_vars

(***************************************************************************)
(* _create_reduced_point_cloud                                             *)
(* A frame of the info file is [name, velo_ok, path_ok]: the file name of  *)
(* its velodyne_path, whether np.fromfile can read it, and whether the     *)
(* sixth component of its image_path is a number.  A path is               *)
(* [type, dir, name, tail], type "Path" or "str", tail what was            *)
(* concatenated after the name.                                            *)
(***************************************************************************)
\* lines 366-380 for one frame: the exception raised, or the file opened
SaveFilename(info, save_path, back) ==
    IF save_path = "None"
    THEN \* save_filename is a pathlib.Path: '+=' with a str is a TypeError
         IF back THEN [raised |-> "TypeError"]
         ELSE [raised |-> "", type |-> "Path", dir |-> "velodyne_reduced",
               name |-> info.name, tail |-> ""]
    ELSE [raised |-> "", type |-> "str", dir |-> save_path, name |-> info.name,
          tail |-> IF back THEN "_back" ELSE ""]

\* the body of the loop of line 346 for one frame, from what the frames
\* before it left
ReduceOne(out, info, save_path, back) ==
    IF out.outcome # "done" THEN out
    ELSE IF ~info.velo_ok THEN [out EXCEPT !.outcome = "FileNotFoundError"]
    ELSE IF ~info.path_ok THEN [out EXCEPT !.outcome = "ValueError"]
    ELSE LET save_filename == SaveFilename(info, save_path, back)
             made == out.save_dir_made \/ save_path = "None"
         IN  IF save_filename.raised # ""
             THEN [out EXCEPT !.outcome = save_filename.raised, !.save_dir_made = made]
             ELSE [out EXCEPT !.save_dir_made = made,
                              !.written = Append(@, [type |-> save_filename.type,
                                                     dir |-> save_filename.dir,
                                                     name |-> save_filename.name,
                                                     tail |-> save_filename.tail])]

_create_reduced_point_cloud(call) ==
    LET F[i \in 0..Len(call.infos)] ==
            IF i = 0 THEN [NoReduceOut EXCEPT !.outcome = "done"]
            ELSE ReduceOne(F[i - 1], call.infos[i], call.save_path, call.back)
    IN  F[Len(call.infos)]

(***************************************************************************)
(* SpecReduce: one call of _create_reduced_point_cloud                     *)
(***************************************************************************)
MaxFrames == 2

ReduceFrames ==
    {[name |-> n, velo_ok |-> v, path_ok |-> c] :
        n \in {"000001.bin", "000002.bin"}, v \in BOOLEAN, c \in BOOLEAN}

InitReduce ==
    /\ \E fs \in SeqsUpTo(ReduceFrames, MaxFrames), save_path \in {"None", "out"},
          back \in BOOLEAN :
          reduce_call = [infos |-> fs, save_path |-> save_path, back |-> back]
    /\ reduce_out = NoReduceOut
    /\ BoxIdle
    /\ NusIdle
    /\ HullIdle
    /\ RecIdle
    /\ CalcIdle
    /\ MvxIdle
    /\ CreateIdle
    /\ PtsIdle
    /\ ExportIdle

\* _create_reduced_point_cloud(data_path, info_path, save_path, back)
CreateReducedPointCloud ==
    /\ reduce_out.outcome = "none"
    /\ reduce_out' = _create_reduced_point_cloud(reduce_call)
    /\ UNCHANGED <<boxvars, ptsvars, exportvars, nusvars, hullvars, recvars, calcvars, mvxvars, createvars, reduce_call>>

NextReduce == CreateReducedPointCloud

SpecReduce == InitReduce /\ [][NextReduce]_vars

(***************************************************************************)
(* SpecPts: the three point-in-box functions on one point cloud and one    *)
(* list of corner sets                                                     *)
(***************************************************************************)
MaxCornerSets == 2

BoxSetP ==
    {<< <<0, 0, 0>>, <<2, 2, 2>>, <<5, 0>> >>, << <<1, 0, 0>>, <<4, 2, 2>>, <<3, 4>> >>,
     << <<0, 0, 0>>, <<0, 2, 2>>, <<0, 5>> >>, << <<0, 0, 1>>, <<2, 4, 0>>, <<5, 0>> >>}

\* corner sets as the callers hand them over: the 8x3 arrays of the batch
\* builder and the 3x8 array of the single-box builder
CornerSetsP ==
    {batch_corner(b[1], b[2], b[3]) : b \in BoxSetP}
        \cup {box_center_to_corner_3d_(b[1] \o b[2] \o <<AddHalfPi(b[3])>>) : b \in BoxSetP}

PtSetP == {<<0, 0, 0>>, <<10, 0, 0>>, <<11, 0, 0>>, <<0, -10, 10>>, <<30, 10, 0>>}

InitPts ==
    /\ \E pc \in SeqsUpTo(PtSetP, MaxPts), corners \in SeqsUpTo(CornerSetsP, MaxCornerSets) :
          pts_call = [pc |-> pc, corners |-> corners]
    /\ pts_out = NoPtsOut
    /\ BoxIdle
    /\ NusIdle
    /\ HullIdle
    /\ RecIdle
    /\ CalcIdle
    /\ MvxIdle
    /\ CreateIdle
    /\ ReduceIdle
    /\ ExportIdle

GetPtsIn3dbox ==
    /\ ~pts_out.loop.called
    /\ pts_out' = [pts_out EXCEPT !.loop = [called |-> TRUE,
                                     ret |-> get_pts_in_3dbox(pts_call.pc, pts_call.corners) @@ <<>>]]
    /\ UNCHANGED <<boxvars, nusvars, hullvars, recvars, calcvars, mvxvars, createvars, reducevars, exportvars, pts_call>>

GetPtsIn3dbox_ ==
    /\ ~pts_out.vec.called
    /\ pts_out' = [pts_out EXCEPT !.vec = [called |-> TRUE,
                                     ret |-> get_pts_in_3dbox_(pts_call.pc, pts_call.corners) @@ <<>>]]
    /\ UNCHANGED <<boxvars, nusvars, hullvars, recvars, calcvars, mvxvars, createvars, reducevars, exportvars, pts_call>>

GetPtsIndexIn3dbox_ ==
    /\ ~pts_out.index.called
    /\ pts_out' = [pts_out EXCEPT !.index = [called |-> TRUE,
                                     ret |-> get_pts_index_in_3dbox_(pts_call.pc, pts_call.corners) @@ <<>>]]
    /\ UNCHANGED <<boxvars, nusvars, hullvars, recvars, calcvars, mvxvars, createvars, reducevars, exportvars, pts_call>>

NextPts == GetPtsIn3dbox \/ GetPtsIn3dbox_ \/ GetPtsIndexIn3dbox_

SpecPts == InitPts /\ [][NextPts]_vars

(***************************************************************************)
(* export_2d_annotation (spa_mvx and spa_nus)                              *)
(* An element of coco_infos is [none, rec]: None, or the record.  A run is *)
(* a list of [image, coco_infos], one entry per pass of the innermost      *)
(* loop that appends to 'images'.                                          *)
(***************************************************************************)
\* a test of 'coco_info is None' that never skips
NeverNone(coco_info) == FALSE

\* coco_info is None (lines 468 / 832)
IsNone(coco_info) == coco_info.none

\* the loop over coco_infos, lines 467-474 (spa_mvx) and 831-838 (spa_nus)
ExportRecords(out, coco_infos) ==
    LET F[i \in 0..Len(coco_infos)] ==
            IF i = 0 THEN out
            ELSE IF IsNone(coco_infos[i]) THEN F[i - 1]
            ELSE [F[i - 1] EXCEPT
                    !.annotations = Append(@, [rec |-> coco_infos[i].rec,
                                               segmentation |-> <<>>,
                                               id |-> F[i - 1].coco_ann_id]),
                    !.coco_ann_id = @ + 1]
    IN  F[Len(coco_infos)]

\* the loop over the images: the image is appended, then its records
ExportLoop(passes) ==
    LET F[i \in 0..Len(passes)] ==
            IF i = 0 THEN [NoExportOut EXCEPT !.outcome = "done"]
            ELSE ExportRecords([F[i - 1] EXCEPT !.images = Append(@, passes[i].image)],
                               passes[i].coco_infos)
    IN  F[Len(passes)]

\* spa_mvx: coco_infos of one info, get_2d_boxes with occluded=[0, 1, 2, 3]
MvxCocoInfos(info, mono3d) ==
    IF ~info.has_annos THEN <<>>
    ELSE LET recs == MvxRecords(FilterAnnos(info.annos, <<0, 1, 2, 3>>), mono3d)
         IN  [i \in 1..Len(recs) |->
                 [none |-> recs[i].coco.outcome = "None", rec |-> recs[i]]]

\* spa_mvx: one pass per info (lines 451-474)
MvxPasses(frames, mono3d) ==
    [i \in 1..Len(frames) |-> [image |-> <<i>>, coco_infos |-> MvxCocoInfos(frames[i], mono3d)]]

\* spa_nus: coco_infos of one camera of one info; generate_record_ returns
\* no None
NusCocoInfos(f, cam, mono3d) ==
    LET recs == Get2dReturn(f, cam, mono3d)
    IN  [i \in 1..Len(recs) |-> [none |-> FALSE, rec |-> recs[i]]]

\* spa_nus: one pass per info and camera, the cameras inside (lines 808-838)
NusPasses(frames, mono3d) ==
    [k \in 1..(5 * Len(frames)) |->
        LET i == ((k - 1) \div 5) + 1
            cam == ((k - 1) % 5) + 1
        IN  [image |-> <<i, cam>>, coco_infos |-> NusCocoInfos(frames[i], cam, mono3d)]]

export_2d_annotation(call) ==
    IF call.fn = "spa_mvx" THEN ExportLoop(MvxPasses(call.frames, call.mono3d))
    ELSE IF \E i \in 1..Len(call.frames), cam \in 1..5 : Get2dRaises(call.frames[i], cam)
    THEN [NoExportOut EXCEPT !.outcome = "raised"]
    ELSE ExportLoop(NusPasses(call.frames, call.mono3d))

(***************************************************************************)
(* SpecExport: one run of an export_2d_annotation                          *)
(***************************************************************************)
MaxExportFrames == 2

ExportRows ==
    {r \in AnnosRows :
        /\ r.occluded = 0
        /\ \/ r.name = "Car"
           \/ r.final_coords[2] = NoCoord /\ r.depth[1] = 10}

MvxExportInfos ==
    {[has_annos |-> FALSE, annos |-> <<>>]}
        \cup {[has_annos |-> TRUE, annos |-> a] : a \in SeqsUpTo(ExportRows, MaxAnnos)}

NusExportFrames ==
    IF MaxExportFrames < 2 THEN {<<>>} \cup {<<f>> : f \in FramesC("t1")}
    ELSE {<<>>} \cup {<<f>> : f \in FramesC("t1")}
            \cup {<<f1, f2>> : f1 \in FramesC("t1"), f2 \in FramesC("t2")}

InitExport ==
    /\ \E mono3d \in BOOLEAN :
          \/ \E frames \in SeqsUpTo(MvxExportInfos, MaxExportFrames) :
                export_call = [fn |-> "spa_mvx", frames |-> frames, mono3d |-> mono3d]
          \/ \E frames \in NusExportFrames :
                export_call = [fn |-> "spa_nus", frames |-> frames, mono3d |-> mono3d]
    /\ export_out = NoExportOut
    /\ BoxIdle
    /\ NusIdle
    /\ HullIdle
    /\ RecIdle
    /\ CalcIdle
    /\ MvxIdle
    /\ CreateIdle
    /\ ReduceIdle
    /\ PtsIdle

\* export_2d_annotation(root_path, info_path, mono3d)
Export2dAnnotation ==
    /\ export_out.outcome = "none"
    /\ export_out' = export_2d_annotation(export_call)
    /\ UNCHANGED <<boxvars, nusvars, hullvars, recvars, calcvars, mvxvars, createvars, reducevars, ptsvars, export_call>>

NextExport == Export2dAnnotation

SpecExport == InitExport /\ [][NextExport]_vars

(***************************************************************************)
(* Claims about the corner builders (SpecBox)                              *)
(***************************************************************************)
Signs == {-1, 1}

\* per-axis extent of a 3x8 corner array
EnvMin(c, k) == SeqMin(c[k])

EnvMax(c, k) == SeqMax(c[k])

\* C1: each builder returns 8 corners whose local offsets before rotation
\* are the eight sign combinations of (+-l/2, +-w/2, +-h/2), and corner i
\* and corner i+4 differ only in the sign of the height offset.
C1_EightSignCombinations ==
    builder # "none" =>
        LET d == gt_box[2]
            bb == bounding_box
        IN  /\ Len(bb[1]) = 8 /\ Len(bb[2]) = 8 /\ Len(bb[3]) = 8
            /\ {<<bb[1][i], bb[2][i], bb[3][i]>> : i \in 1..8}
                 = {<<sx * d[1], sy * d[2], sz * d[3]>> : sx \in Signs, sy \in Signs, sz \in Signs}
            /\ \A i \in 1..4 :
                 /\ bb[1][i] = bb[1][i + 4]
                 /\ bb[2][i] = bb[2][i + 4]
                 /\ bb[3][i] = -bb[3][i + 4]

\* C2: for a yaw that is a multiple of pi/2 the axis-aligned envelope of the
\* 8 returned corners has volume l*w*h and is centred on the box center
\* (corners are in tenths: the volume is in thousandths).
C2_CardinalEnvelope ==
    (builder # "none" /\ Cardinal(gt_box[3])) =>
        LET c == corner_box
            d == gt_box[2]
        IN  /\ (EnvMax(c, 1) - EnvMin(c, 1)) * (EnvMax(c, 2) - EnvMin(c, 2))
                 * (EnvMax(c, 3) - EnvMin(c, 3)) = 1000 * d[1] * d[2] * d[3]
            /\ \A k \in 1..3 : EnvMin(c, k) + EnvMax(c, k) = 20 * gt_box[1][k]

C2_Witness ==
    /\ builder = "batch"
    /\ gt_box = << <<1, -2, 3>>, <<1, 2, 2>>, <<0, 5>> >>
    /\ EnvMax(corner_box, 1) - EnvMin(corner_box, 1) = 10

(***************************************************************************)
(* Claims about the point counts of _fill_trainval_infos (Spec)            *)
(***************************************************************************)
Infos == Range(train_nusc_infos) \cup Range(val_nusc_infos)

\* the corner sets that produced the counts of an info record (line 424)
CornerSetsOf(info) ==
    box_center_to_corner_3d(
        [i \in 1..Len(info.gt_boxes) |-> SubSeq(info.gt_boxes[i], 1, 3)],
        [i \in 1..Len(info.gt_boxes) |-> SubSeq(info.gt_boxes[i], 4, 6)],
        [i \in 1..Len(info.gt_boxes) |-> info.gt_boxes[i][7]])

\* p is between the least and the greatest corner on each axis, bounds included
InEnvelope(p, c) ==
    \A k \in 1..3 : /\ \E i \in 1..Len(c) : c[i][k] <= p[k]
                    /\ \E i \in 1..Len(c) : p[k] <= c[i][k]

\* C3: get_pts_in_3dbox_ returns one count per corner set, in the order of
\* the corner sets; the count of a box is the number of points between the
\* per-axis minimum and maximum of its corners, a point on a bound included,
\* and it lies between 0 and the number of points.
C3_CountPerCornerSet ==
    \A info \in Infos :
        LET pc == FrameOf(info.token).points
            cs == CornerSetsOf(info)
        IN  /\ Len(info.num_lidar_pts) = Len(cs)
            /\ \A n \in 1..Len(cs) :
                 /\ info.num_lidar_pts[n]
                      = Cardinality({j \in 1..Len(pc) : InEnvelope(pc[j], cs[n])})
                 /\ 0 <= info.num_lidar_pts[n]
                 /\ info.num_lidar_pts[n] <= Len(pc)

\* two boxes with different counts, the point of the first lying on a bound
C3_Witness ==
    \E info \in Infos :
        /\ Len(info.gt_boxes) = 2
        /\ FrameOf(info.token).points = << <<10, 10, 10>> >>
        /\ info.gt_boxes[1] = <<0, 0, 0, 2, 2, 2, <<5, 0>> >>
        /\ info.num_lidar_pts = <<1, 0>>

\* p is inside the oriented box b = <<x, y, z, l, w, h, yaw>> turned by
\* yaw + pi/2 as _fill_trainval_infos turns it: the exact test in the box's
\* local frame, bounds included
InOriented(p, b) ==
    LET r == AddHalfPi(b[7])
        dx == p[1] - 10 * b[1]
        dy == p[2] - 10 * b[2]
        dz == p[3] - 10 * b[3]
    IN  /\ Abs(r[1] * dx + r[2] * dy) <= 25 * b[4]
        /\ Abs(r[1] * dy - r[2] * dx) <= 25 * b[5]
        /\ Abs(dz) <= 5 * b[6]

\* C4: the stored num_lidar_pts is never smaller than the number of points
\* inside the oriented box (the axis-aligned test only over-counts).
C4_OnlyOverCounts ==
    \A info \in Infos :
        LET pc == FrameOf(info.token).points
        IN  \A n \in 1..Len(info.gt_boxes) :
                info.num_lidar_pts[n]
                    >= Cardinality({j \in 1..Len(pc) : InOriented(pc[j], info.gt_boxes[n])})

\* p is displaced from the center of b along one axis only, by more than
\* half of ext on that axis
Beyond(p, b, ext) ==
    \E k \in 1..3 :
        /\ Abs(p[k] - 10 * b[k]) > 5 * ext[k]
        /\ \A m \in (1..3) \ {k} : p[m] = 10 * b[m]

\* the count of every box with label yaw 0 and l, w, h > 0 is at least the
\* number of points at its center and leaves out every point beyond ext
CenterInBeyondOut(Ext(_)) ==
    \A info \in Infos :
        LET pc == FrameOf(info.token).points
        IN  \A n \in 1..Len(info.gt_boxes) :
                LET b == info.gt_boxes[n]
                IN  (b[7] = <<5, 0>> /\ b[4] > 0 /\ b[5] > 0 /\ b[6] > 0) =>
                      /\ info.num_lidar_pts[n]
                           >= Cardinality({j \in 1..Len(pc) :
                                  pc[j] = <<10 * b[1], 10 * b[2], 10 * b[3]>>})
                      /\ info.num_lidar_pts[n]
                           <= Len(pc) - Cardinality({j \in 1..Len(pc) : Beyond(pc[j], b, Ext(b))})

ExtLWH(b) == <<b[4], b[5], b[6]>>

ExtWLH(b) == <<b[5], b[4], b[6]>>

C6_DegenerateBoxEmpty ==
    /\ \A info \in Infos :
         \A n \in 1..Len(info.gt_boxes) :
            (\E k \in 4..6 : info.gt_boxes[n][k] = 0) =>
                info.num_lidar_pts[n] = 0 /\ ~info.valid_flag[n]
    /\ \A i \in 1..Len(ann_recs) :
         (\E k \in 1..3 : ann_recs[i].size[k] = 0) => ann_recs[i].num_lidar_pts = 0

(***************************************************************************)
(* Claims about spa_nus get_2d_boxes (Spec)                                *)
(***************************************************************************)
\* the label rows of the last get_2d_boxes call
CallRows ==
    IF cam_arg.outcome = "none" THEN <<>>
    ELSE get_label_anno(FrameOf(cam_arg.token).label_files[cam_arg.cam])

\* camera-frame depth, in tenths, of the 8 corners of label row a
CornerDepths(a) ==
    ToCamera(FrameOf(cam_arg.token).calib[cam_arg.cam],
             box_center_to_corner_3d_(a.location \o a.dimensions \o <<a.rotation_y>>))[3]

AllBehind(a) == \A i \in 1..8 : CornerDepths(a)[i] <= 0

\* C7: a box whose 8 corners are all at camera depth z <= 0 yields no record
\* for that camera, and the call does not raise because of it.
C7_BehindCameraNoRecord ==
    (cam_arg.outcome # "none" /\ cam_arg.mono3d) =>
        /\ (\A i \in 1..Len(CallRows) : AllBehind(CallRows[i])) => cam_arg.outcome = "returned"
        /\ Len(repro_recs) <= Cardinality({i \in 1..Len(CallRows) : ~AllBehind(CallRows[i])})

\* C8: no record returned with mono3d = True has a center2d whose depth is <= 0.
C8_CenterInFront ==
    \A i \in 1..Len(repro_recs) : repro_recs[i].center2d.depth > 0

\* C10: every emitted record has 0 <= min_x <= max_x <= 1920 and
\* 0 <= min_y <= max_y <= 1200, and its bbox width, bbox height and area are
\* not negative.
C10_RecordInCanvas ==
    \A i \in 1..Len(repro_recs) :
        LET bbox == repro_recs[i].coco.bbox
        IN  /\ 0 <= bbox[1] /\ bbox[1] <= bbox[1] + bbox[3] /\ bbox[1] + bbox[3] <= 1920
            /\ 0 <= bbox[2] /\ bbox[2] <= bbox[2] + bbox[4] /\ bbox[2] + bbox[4] <= 1200
            /\ bbox[3] >= 0 /\ bbox[4] >= 0 /\ repro_recs[i].coco.area >= 0

\* a box that reaches past the left edge of the image: its min_x is clamped
\* to 0 and its max_x is inside
C10_Witness ==
    /\ cam_arg.outcome = "returned" /\ cam_arg.mono3d /\ cam_arg.cam = 1
    /\ FrameOf(cam_arg.token).calib[1].t = <<-10, 0, 10>>
    /\ Len(repro_recs) = 1
    /\ repro_recs[1].coco.bbox[1] = 0
    /\ repro_recs[1].coco.bbox[3] > 0
    /\ repro_recs[1].coco.bbox[3] < 1920

(***************************************************************************)
(* Claims about post_process_coords (SpecHull)                             *)
(***************************************************************************)
\* the plain bounding rectangle of the points
BoundingRectangle(coords) ==
    <<Frac(SeqMin(Col(coords, 1)), 1), Frac(SeqMin(Col(coords, 2)), 1),
      Frac(SeqMax(Col(coords, 1)), 1), Frac(SeqMax(Col(coords, 2)), 1)>>

\* C9: when the convex hull of the corners lies entirely outside the canvas
\* the result is None; when every corner lies inside the canvas the result
\* is the plain bounding rectangle of the corners.
C9_OutsideNoneInsideRectangle ==
    final_coords.outcome # "none" =>
        /\ (\A x \in 0..imsize[1], y \in 0..imsize[2] : ~InHull(<<x, y>>, corner_coords)
            /\ IntersectionPoints(corner_coords, imsize) = {})
              => final_coords.outcome = "None"
        /\ (Len(corner_coords) > 0
            /\ \A i \in 1..Len(corner_coords) : InCanvas(corner_coords[i], imsize))
              => /\ final_coords.outcome = "rect"
                 /\ final_coords.rect = BoundingRectangle(corner_coords)

\* C23: post_process_coords does not raise on any list of points: it returns
\* None or a rectangle with 0 <= min_x <= max_x <= width and
\* 0 <= min_y <= max_y <= height, and None exactly when the hull does not
\* meet the canvas.
C23_NeverRaises ==
    final_coords.outcome # "none" =>
        /\ final_coords.outcome \in {"None", "rect"}
        /\ final_coords.outcome = "rect" =>
              /\ FracLeq(Frac(0, 1), final_coords.rect[1])
              /\ FracLeq(final_coords.rect[1], final_coords.rect[3])
              /\ FracLeq(final_coords.rect[3], Frac(imsize[1], 1))
              /\ FracLeq(Frac(0, 1), final_coords.rect[2])
              /\ FracLeq(final_coords.rect[2], final_coords.rect[4])
              /\ FracLeq(final_coords.rect[4], Frac(imsize[2], 1))
        /\ (final_coords.outcome = "None") = (IntersectionPoints(corner_coords, imsize) = {})

(***************************************************************************)
(* Claims about spa_nus get_2d_boxes, end to end (Spec)                    *)
(***************************************************************************)
Identity3 == << <<1, 0, 0>>, <<0, 1, 0>>, <<0, 0, 1>> >>

\* the call is made for the camera with intrinsic K0, identity rotation and
\* translation (0,0,10), and row a is the box (0,0,0), (2,2,2), yaw 0
EndToEndCase(a) ==
    /\ cam_arg.outcome = "returned"
    /\ FrameOf(cam_arg.token).calib[cam_arg.cam] = [K |-> K0, R |-> Identity3, t |-> <<0, 0, 10>>]
    /\ a.location = <<0, 0, 0>>
    /\ a.dimensions = <<2, 2, 2>>
    /\ a.rotation_y = <<5, 0>>

\* C11: for the box (0,0,0), (2,2,2), yaw 0 seen with K0, identity rotation
\* and translation (0,0,10), the centre of the emitted 2D box is within one
\* pixel of (960,540) and center2d is (960,540) with depth 10 (100 tenths).
C11_EndToEnd ==
    \A i \in 1..Len(repro_recs) :
        EndToEndCase(CallRows[i]) =>
            LET bbox == repro_recs[i].coco.bbox
                c == repro_recs[i].center2d
            IN  /\ Abs(2 * bbox[1] + bbox[3] - 2 * 960) <= 2
                /\ Abs(2 * bbox[2] + bbox[4] - 2 * 540) <= 2
                /\ c.depth = 100
                /\ c.u[1] = 960 * c.u[2]
                /\ c.v[1] = 540 * c.v[2]

C11_Witness ==
    /\ Len(repro_recs) = 1
    /\ EndToEndCase(CallRows[1])
    /\ repro_recs[1].coco.bbox = <<848, 428, 223, 223>>

(***************************************************************************)
(* Claims about the record generators (SpecRecord)                         *)
(***************************************************************************)
CategoriesOf(fn) == IF fn = "generate_record" THEN spa_mvx_categories ELSE nus_categories

ReadableTokens(scenes) ==
    LET Keep(i) == scenes[i].calib_ok /\ scenes[i].velo_ok
        F[i \in 0..Len(scenes)] ==
            IF i = 0 THEN <<>>
            ELSE IF Keep(i) THEN Append(F[i - 1], scenes[i].token) ELSE F[i - 1]
    IN  F[Len(scenes)]

\* C13: a missing calibration or point-cloud file aborts only its frame:
\* _fill_trainval_infos still returns the info records of all other frames
\* (here: of lists whose label files all parse).
C13_OtherFramesReturned ==
    (stage # "start"
     /\ \A f \in AllScenes : \A c \in 1..5 : ~LabelRaises(f.label_files[c])) =>
        /\ stage = "filled"
        /\ [i \in 1..Len(train_nusc_infos) |-> train_nusc_infos[i].token]
             = ReadableTokens(train_scenes)
        /\ [i \in 1..Len(val_nusc_infos) |-> val_nusc_infos[i].token]
             = ReadableTokens(val_scenes)

\* a row that has neither 16 fields nor 17, or a file that mixes the two
WrongFieldCount(content) ==
    \/ \E i \in 1..Len(content) : content[i].nf \notin {16, 17}
    \/ \E i \in 1..Len(content), j \in 1..Len(content) : content[i].nf # content[j].nf

\* C14: get_label_anno fails for every label file with a row of a wrong
\* field count; nothing is built from such a file (neither the infos of
\* _fill_trainval_infos nor the records of get_2d_boxes).
C14_WrongFieldCountFails ==
    /\ (stage # "start"
        /\ \E f \in AllScenes : \E c \in 1..5 : WrongFieldCount(f.label_files[c]))
          => stage = "raised"
    /\ (cam_arg.outcome # "none"
        /\ WrongFieldCount(FrameOf(cam_arg.token).label_files[cam_arg.cam]))
          => cam_arg.outcome = "raised"

(***************************************************************************)
(* Claims about _NumPointsInGTCalculater.calculate (SpecCalc)              *)
(***************************************************************************)
\* C15: calculate preserves the input order: after it returns, infos[i] is
\* calculate_single of the original infos[i] for every i, whatever order
\* the workers finish in.
C15_OrderPreserved ==
    calc_pc = "done" =>
        /\ Len(infos) = Len(tasks)
        /\ \A i \in 1..Len(infos) : infos[i] = calculate_single(tasks[i])

\* the second task finished before the first, and their infos differ
C15_Witness ==
    /\ calc_pc = "done"
    /\ Len(infos) = MaxInfos
    /\ results[2].order < results[1].order
    /\ tasks[1] # tasks[2]
    /\ infos[1].num_points_in_gt = <<1>>

\* C27: after calculate_single on a frame num_points_in_gt has one entry per
\* annotation, -1 for each annotation named 'DontCare' and, for each other
\* annotation, the non-negative number of points inside its own box,
\* wherever the 'DontCare' annotations stand in the arrays.
C27_PointsPerAnnotation ==
    \A t \in 1..Len(results) :
        results[t].done =>
            /\ Len(results[t].info.num_points_in_gt) = Len(tasks[t].name)
            /\ \A k \in 1..Len(tasks[t].name) :
                  results[t].info.num_points_in_gt[k]
                      = IF tasks[t].name[k] = "DontCare" THEN -1 ELSE tasks[t].inside[k]

\* the number of rows before row i that are not named 'DontCare'
ObjectsBefore(content, i) ==
    Cardinality({j \in 1..(i - 1) : content[j].name # "DontCare"})

\* C28: a label file whose rows have 16 or 17 fields, 'DontCare' rows
\* included, is parsed without error; every array has one entry per row in
\* row order, dimensions are (l, w, h), 'index' numbers the rows not named
\* 'DontCare' from 0 and is -1 on a 'DontCare' row, group_ids is 0..n-1.
C28_LabelArrays ==
    stage \in {"filled", "raised"} =>
        \A f \in AllScenes, c \in 1..5 :
            (\A i \in 1..Len(f.label_files[c]) : f.label_files[c][i].nf \in {16, 17}) =>
                /\ ~LabelRaises(f.label_files[c])
                /\ Len(get_label_anno(f.label_files[c])) = Len(f.label_files[c])
                /\ \A i \in 1..Len(f.label_files[c]) :
                      LET x == f.label_files[c][i]
                          a == get_label_anno(f.label_files[c])[i]
                      IN  /\ a.dimensions = <<x.hwl[3], x.hwl[2], x.hwl[1]>>
                          /\ a.location = x.location
                          /\ a.rotation_y = x.rotation_y
                          /\ a.track_id = x.track_id
                          /\ a.group_ids = i - 1
                          /\ a.index = IF x.name = "DontCare" THEN -1
                                       ELSE ObjectsBefore(f.label_files[c], i)

\* C29: a frame listed in train_scenes and the same frame listed in
\* val_scenes give equal info records.
C29_TrainValSame ==
    stage = "filled" =>
        \A i \in 1..Len(train_scenes), j \in 1..Len(val_scenes) :
            train_scenes[i] = val_scenes[j] => train_nusc_infos[i] = val_nusc_infos[j]

\* C30: the num_lidar_pts that get_2d_boxes attaches to the record of a
\* label row equals the num_lidar_pts that _fill_trainval_infos stored in
\* the frame's info record for the same label (same label file, same box).
C30_SameCount ==
    cam_arg.outcome = "returned" =>
        \A info \in Infos :
            info.token = cam_arg.token =>
                \A i \in 1..Len(CallRows), k \in 1..Len(info.gt_boxes) :
                    (/\ info.cam_mask[k] = cam_arg.cam - 1
                     /\ info.gt_boxes[k] = ProjectBox(CallRows[i]))
                        => info.num_lidar_pts[k] = ann_recs[i].num_lidar_pts

\* C17: in get_2d_boxes the corners that count the LiDAR points of a label
\* and the corners projected for its 2D box are built with the same rotation
\* angle, the angle _fill_trainval_infos counts with (rotation_y + pi/2).
C17_SameRotation ==
    cam_arg.outcome = "returned" =>
        \A i \in 1..Len(CallRows) :
            /\ CountBox(CallRows[i])[7] = AddHalfPi(CallRows[i].rotation_y)
            /\ ProjectBox(CallRows[i])[7] = CountBox(CallRows[i])[7]

\* C19: a get_2d_boxes call with mono3d = False returns one record per label
\* row, with the bbox the call with mono3d = True gives that row.
C19_Mono3dOnlyAddsFields ==
    (cam_arg.outcome = "returned" /\ ~cam_arg.mono3d) =>
        /\ Len(repro_recs) = Len(CallRows)
        /\ \A i \in 1..Len(repro_recs) :
              repro_recs[i].coco.bbox =
                  Get2dReturn(FrameOf(cam_arg.token), cam_arg.cam, TRUE)[i].coco.bbox

\* the rows 'remove overlapping annos' keeps for train frame f
Retained(f) == RemoveOverlapping(MergedAnnos(f))

\* C21: after 'remove overlapping annos' on a train frame no two retained
\* annotations have the same track_id, and every track_id of the frame's
\* five label files is retained.
C21_OneRowPerTrack ==
    stage = "filled" =>
        \A n \in 1..Len(train_scenes) :
            /\ Len(train_nusc_infos[n].gt_boxes) = Len(Retained(train_scenes[n]))
            /\ \A i, j \in 1..Len(Retained(train_scenes[n])) :
                  Retained(train_scenes[n])[i].anno.track_id
                      = Retained(train_scenes[n])[j].anno.track_id => i = j
            /\ UniqueIds(Retained(train_scenes[n])) = UniqueIds(MergedAnnos(train_scenes[n]))

\* entry i of the per-box fields of info describes label row a
Describes(info, i, a) ==
    /\ info.gt_boxes[i] = a.location \o a.dimensions \o <<a.rotation_y>>
    /\ info.gt_names[i] = a.name
    /\ info.num_lidar_pts[i]
         = get_pts_in_3dbox_(FrameOf(info.token).points,
                             <<batch_corner(a.location, a.dimensions, a.rotation_y)>>)[1]

\* C25: in every info record gt_boxes, gt_names, num_lidar_pts, valid_flag
\* and cam_mask have the same length; entry i of each describes one row of
\* label file cam_mask[i] (counted from 0); valid_flag[i] is true exactly
\* when num_lidar_pts[i] > 0.
C25_FieldsAligned ==
    \A info \in Infos :
        /\ Len(info.gt_names) = Len(info.gt_boxes)
        /\ Len(info.num_lidar_pts) = Len(info.gt_boxes)
        /\ Len(info.valid_flag) = Len(info.gt_boxes)
        /\ Len(info.cam_mask) = Len(info.gt_boxes)
        /\ \A i \in 1..Len(info.gt_boxes) :
              /\ info.valid_flag[i] = (info.num_lidar_pts[i] > 0)
              /\ info.cam_mask[i] \in 0..4
              /\ \E a \in Range(get_label_anno(
                                FrameOf(info.token).label_files[info.cam_mask[i] + 1])) :
                    Describes(info, i, a)

\* an info record of two annotations read from the first and the last label
\* file, one with points inside and one without
C25_Witness ==
    \E info \in Infos :
        /\ Len(info.gt_boxes) = 2
        /\ info.cam_mask = <<0, 4>>
        /\ info.gt_boxes[1] # info.gt_boxes[2]
        /\ info.valid_flag[1] # info.valid_flag[2]

(***************************************************************************)
(* Claims about spa_mvx get_2d_boxes (SpecMvx)                             *)
(***************************************************************************)
\* C16: spa_mvx get_2d_boxes is a pure transform of its input: a call with
\* any occluded list leaves info, and every array of info['annos'],
\* unchanged.
C16_InfoUnchanged == [][mvx_info' = mvx_info]_vars

(***************************************************************************)
(* Claims about create_spa_nus_infos (SpecCreate)                          *)
(***************************************************************************)
\* C18: with the default version 'v1.0-trainval' the run is not rejected for
\* its version, selects the train and val splits and, when it completes, has
\* written the train and val info files; a version without a branch is
\* rejected with no file written.
C18_VersionGate ==
    create_out.outcome # "none" =>
        /\ (create_call.version = "v1.0-trainval" /\ create_call.nusc_ok) =>
              /\ create_out.outcome \notin {"AssertionError", "ValueError"}
              /\ create_out.train_scenes = create_call.splits.train
              /\ create_out.val_scenes = create_call.splits.val
              /\ create_out.outcome = "done" =>
                    /\ Len(create_out.written) = 2
                    /\ create_out.written[1].path = "infos_train.pkl"
                    /\ create_out.written[2].path = "infos_val.pkl"
        /\ create_call.version \notin BranchVersions =>
              /\ create_out.outcome # "done"
              /\ create_out.written = <<>>

\* the tokens of a list of frames or of info records, in order
TokensOf(recs) == [i \in 1..Len(recs) |-> recs[i].token]

\* C26: a completed run has written one info record per frame of the
\* selected lists, in the order of the lists: train and val records without
\* the test flag, one record per test frame with it.
C26_OneInfoPerFrame ==
    create_out.outcome = "done" =>
        /\ TokensOf(create_out.written[1].infos) = TokensOf(create_out.train_scenes)
        /\ ~create_out.test =>
              TokensOf(create_out.written[2].infos) = TokensOf(create_out.val_scenes)

(***************************************************************************)
(* Claims about _create_reduced_point_cloud (SpecReduce)                   *)
(***************************************************************************)
\* C20: a call with back = True on frames whose files can be read finishes
\* without error, whether save_path is None or given, and has written for
\* every frame, in order, a file named the frame's name followed by '_back'.
C20_BackWritten ==
    (/\ reduce_out.outcome # "none"
     /\ reduce_call.back
     /\ \A i \in 1..Len(reduce_call.infos) :
           reduce_call.infos[i].velo_ok /\ reduce_call.infos[i].path_ok) =>
        /\ reduce_out.outcome = "done"
        /\ Len(reduce_out.written) = Len(reduce_call.infos)
        /\ \A i \in 1..Len(reduce_out.written) :
              /\ reduce_out.written[i].name = reduce_call.infos[i].name
              /\ reduce_out.written[i].tail = "_back"

(***************************************************************************)
(* Claims about the point-in-box functions (SpecPts)                       *)
(***************************************************************************)
AllThreeReturned ==
    /\ pts_out.loop.called
    /\ pts_out.vec.called
    /\ pts_out.index.called

\* C22: get_pts_in_3dbox and get_pts_in_3dbox_ return the same counts; each
\* count is the number of true entries of the mask get_pts_index_in_3dbox_
\* returns for that corner set; a mask has one entry per point, entry j
\* telling whether point j is inside.
C22_ThreeAgree ==
    AllThreeReturned =>
        /\ pts_out.loop.ret = pts_out.vec.ret
        /\ Len(pts_out.vec.ret) = Len(pts_call.corners)
        /\ Len(pts_out.index.ret) = Len(pts_call.corners)
        /\ \A n \in 1..Len(pts_call.corners) :
              /\ Len(pts_out.index.ret[n]) = Len(pts_call.pc)
              /\ pts_out.vec.ret[n]
                   = Cardinality({j \in 1..Len(pts_call.pc) : pts_out.index.ret[n][j]})
              /\ \A j \in 1..Len(pts_call.pc) :
                    pts_out.index.ret[n][j] = InEnvelope(pts_call.pc[j], pts_call.corners[n])

\* two corner sets with different counts, a point on a bound of the first,
\* one point inside and one outside
C22_Witness ==
    /\ AllThreeReturned
    /\ Len(pts_call.corners) = 2
    /\ pts_call.pc = << <<10, 0, 0>>, <<30, 10, 0>> >>
    /\ pts_out.index.ret[1] = <<TRUE, FALSE>>
    /\ pts_out.vec.ret[1] # pts_out.vec.ret[2]

(***************************************************************************)
(* Claims about export_2d_annotation (SpecExport)                          *)
(***************************************************************************)
\* what get_2d_boxes handed to the run, pass by pass
PassesOf(call) ==
    IF call.fn = "spa_mvx" THEN MvxPasses(call.frames, call.mono3d)
    ELSE NusPasses(call.frames, call.mono3d)

\* the records of all passes in emission order, None included
Emitted(call) ==
    LET F[i \in 0..Len(PassesOf(call))] ==
            IF i = 0 THEN <<>> ELSE F[i - 1] \o PassesOf(call)[i].coco_infos
    IN  F[Len(PassesOf(call))]

NotNone(coco_info) == ~coco_info.none

\* C24: after a run the annotation ids are 0, 1, ..., n-1 in emission
\* order, the annotations are the records that are not None, each with
\* segmentation = [], and 'images' has one entry per frame (spa_mvx) or per
\* frame and camera (spa_nus), with or without annotations.
C24_IdsAndImages ==
    export_out.outcome = "done" =>
        /\ \A k \in 1..Len(export_out.annotations) :
              /\ export_out.annotations[k].id = k - 1
              /\ export_out.annotations[k].segmentation = <<>>
        /\ [k \in 1..Len(export_out.annotations) |-> export_out.annotations[k].rec]
             = [k \in 1..Len(SelectSeq(Emitted(export_call), NotNone)) |->
                   SelectSeq(Emitted(export_call), NotNone)[k].rec]
        /\ Len(export_out.images)
             = (IF export_call.fn = "spa_mvx" THEN 1 ELSE 5) * Len(export_call.frames)
        /\ \A i \in 1..Len(export_out.images) : export_out.images[i] = PassesOf(export_call)[i].image

\* a spa_mvx run of two frames: the first without annotation, the second
\* with a None record before an exported one
C24_Witness ==
    /\ export_out.outcome = "done"
    /\ export_call.fn = "spa_mvx"
    /\ Len(export_call.frames) = 2
    /\ MvxCocoInfos(export_call.frames[1], export_call.mono3d) = <<>>
    /\ Len(Emitted(export_call)) = 3
    /\ Emitted(export_call)[1].none
    /\ Len(export_out.annotations) = 2
    /\ Len(export_out.images) = 2

====
